---- MODULE Spec2Model ----
(***************************************************************************)
(* Elehant water meter integration, custom_components/elehant_water_new:   *)
(* the advertisement pipeline and the lifecycle of scanner.py's            *)
(* ElehantScanner as __init__.py drives it, and the advertisement pipeline *)
(* of sensor.py's polling ElehantScanner.                                  *)
(*                                                                         *)
(* Strings the code takes apart (addresses, identities) are sequences of   *)
(* one-character strings; byte strings are sequences of 0..255.  A float   *)
(* with one decimal place (x / 10.0) is the record of its shortest         *)
(* decimal form: sign, whole part, tenth digit; float(n) / 1000 is whole   *)
(* part and thousandths.  The "last_seen" entry of the dict scanner.py     *)
(* stores (the loop's clock reading) is left out: nothing reads it.        *)
(***************************************************************************)
EXTENDS Integers, Sequences, FiniteSets, TLC

\* Python's None where the value is otherwise a dict or an object (a record).
None == [none |-> TRUE]

\* Python's None where the value is otherwise a str (a sequence of characters):
\* a sequence that is no string, since TLC compares only like with like.
NoneStr == <<"None">>

----------------------------------------------------------------------------
\* const.py

EXPECTED_FIRST_BYTE == 128
IDX_SERIAL_START == 6
IDX_COUNTER_START == 9
IDX_BATTERY == 13
IDX_TEMP_START == 14
\* scanner.py:55, the length parse_elehant_data requires
MIN_LENGTH == 16

----------------------------------------------------------------------------
\* Python primitives used by scanner.py

\* data[start:stop] of a bytes or str value, 0-based, clipped like a slice
Slice(data, start, stop) ==
    SubSeq(data, start + 1, IF stop > Len(data) THEN Len(data) ELSE stop)

\* data[i], 0-based
At(data, i) == data[i + 1]

DecDigit == <<"0", "1", "2", "3", "4", "5", "6", "7", "8", "9">>

RECURSIVE StrNat(_)
StrNat(n) ==
    IF n < 10 THEN <<DecDigit[n + 1]>>
    ELSE StrNat(n \div 10) \o <<DecDigit[(n % 10) + 1]>>

\* str(n) for an int
Str(n) == IF n < 0 THEN <<"-">> \o StrNat(0 - n) ELSE StrNat(n)

HexChars == <<"0", "1", "2", "3", "4", "5", "6", "7", "8", "9",
              "A", "B", "C", "D", "E", "F">>
HexCharsLower == <<"0", "1", "2", "3", "4", "5", "6", "7", "8", "9",
                   "a", "b", "c", "d", "e", "f">>

\* The decimal digits of other scripts, 0 to 9 in each row: int() reads them
\* as it reads "0" to "9".  These are the rows a string literal can be written
\* with; Unicode has 47 more, which int() reads the same way.
DecimalDigits ==
    << <<"۰", "۱", "۲", "۳", "۴", "۵", "۶", "۷", "۸", "۹">>,
       <<"߀", "߁", "߂", "߃", "߄", "߅", "߆", "߇", "߈", "߉">>,
       <<"০", "১", "২", "৩", "৪", "৫", "৬", "৭", "৮", "৯">>,
       <<"૦", "૧", "૨", "૩", "૪", "૫", "૬", "૭", "૮", "૯">>,
       <<"௦", "௧", "௨", "௩", "௪", "௫", "௬", "௭", "௮", "௯">>,
       <<"೦", "೧", "೨", "೩", "೪", "೫", "೬", "೭", "೮", "೯">>,
       <<"෦", "෧", "෨", "෩", "෪", "෫", "෬", "෭", "෮", "෯">>,
       <<"໐", "໑", "໒", "໓", "໔", "໕", "໖", "໗", "໘", "໙">>,
       <<"႐", "႑", "႒", "႓", "႔", "႕", "႖", "႗", "႘", "႙">>,
       <<"០", "១", "២", "៣", "៤", "៥", "៦", "៧", "៨", "៩">>,
       <<"᧐", "᧑", "᧒", "᧓", "᧔", "᧕", "᧖", "᧗", "᧘", "᧙">>,
       <<"᪀", "᪁", "᪂", "᪃", "᪄", "᪅", "᪆", "᪇", "᪈", "᪉">>,
       <<"᪐", "᪑", "᪒", "᪓", "᪔", "᪕", "᪖", "᪗", "᪘", "᪙">>,
       <<"᮰", "᮱", "᮲", "᮳", "᮴", "᮵", "᮶", "᮷", "᮸", "᮹">>,
       <<"꣐", "꣑", "꣒", "꣓", "꣔", "꣕", "꣖", "꣗", "꣘", "꣙">>,
       <<"꧐", "꧑", "꧒", "꧓", "꧔", "꧕", "꧖", "꧗", "꧘", "꧙">>,
       <<"꧰", "꧱", "꧲", "꧳", "꧴", "꧵", "꧶", "꧷", "꧸", "꧹">>,
       <<"꯰", "꯱", "꯲", "꯳", "꯴", "꯵", "꯶", "꯷", "꯸", "꯹">> >>

\* a digit int(s, 16) accepts
IsHexDigit(c) ==
    \/ \E i \in 1..16 : HexChars[i] = c \/ HexCharsLower[i] = c
    \/ \E r \in 1..Len(DecimalDigits), i \in 1..10 : DecimalDigits[r][i] = c

HexVal(c) ==
    IF \E i \in 1..16 : HexChars[i] = c \/ HexCharsLower[i] = c
    THEN (CHOOSE i \in 1..16 : HexChars[i] = c \/ HexCharsLower[i] = c) - 1
    ELSE (CHOOSE i \in 1..10 : \E r \in 1..Len(DecimalDigits) : DecimalDigits[r][i] = c) - 1

\* the whitespace int() strips: space, \t, \n, \r, \f, \x0b, \x85, \xa0 and
\* U+1680.  It strips U+2000-U+200A, U+2028, U+2029, U+202F, U+205F and U+3000
\* too, which no string literal can be written with.
IsSpace(c) == c \in {" ", "\t", "\n", "\r", "\f", "", "", " ", " "}

RECURSIVE LStrip(_)
LStrip(s) == IF s # <<>> /\ IsSpace(Head(s)) THEN LStrip(Tail(s)) ELSE s

RECURSIVE RStrip(_)
RStrip(s) ==
    IF s # <<>> /\ IsSpace(s[Len(s)]) THEN RStrip(SubSeq(s, 1, Len(s) - 1)) ELSE s

\* the digits of an int literal: hex digits, single underscores between them
\* (and, after a 0x prefix, one before the first)
DigitsOk(d, afterPrefix) ==
    /\ d # <<>>
    /\ \A i \in 1..Len(d) : IsHexDigit(d[i]) \/ d[i] = "_"
    /\ d[Len(d)] # "_"
    /\ afterPrefix \/ d[1] # "_"
    /\ \A i \in 1..(Len(d) - 1) : ~(d[i] = "_" /\ d[i + 1] = "_")

RECURSIVE HexFold(_, _)
HexFold(d, acc) ==
    IF d = <<>> THEN acc
    ELSE IF Head(d) = "_" THEN HexFold(Tail(d), acc)
    ELSE HexFold(Tail(d), acc * 16 + HexVal(Head(d)))

\* int(s, 16): [ok |-> TRUE, value |-> n], or [ok |-> FALSE] for ValueError
IntBase16(s) ==
    LET t == RStrip(LStrip(s))
        signed == t # <<>> /\ Head(t) \in {"+", "-"}
        u == IF signed THEN Tail(t) ELSE t
        prefixed == /\ Len(u) >= 2
                    /\ IsHexDigit(u[1]) /\ HexVal(u[1]) = 0
                    /\ u[2] \in {"x", "X"}
        d == IF prefixed THEN SubSeq(u, 3, Len(u)) ELSE u
    IN  IF DigitsOk(d, prefixed)
        THEN [ok |-> TRUE,
              value |-> IF signed /\ Head(t) = "-"
                        THEN 0 - HexFold(d, 0) ELSE HexFold(d, 0)]
        ELSE [ok |-> FALSE]

RECURSIVE SplitFrom(_, _, _)
SplitFrom(s, sep, cur) ==
    IF s = <<>> THEN <<cur>>
    ELSE IF Head(s) = sep THEN <<cur>> \o SplitFrom(Tail(s), sep, <<>>)
    ELSE SplitFrom(Tail(s), sep, Append(cur, Head(s)))

\* s.split(sep) for a one-character separator
Split(s, sep) == SplitFrom(s, sep, <<>>)

\* the bytes read with the least significant first
RECURSIVE FromBytesBig_LittleEndian(_)
FromBytesBig_LittleEndian(b) ==
    IF b = <<>> THEN 0 ELSE b[1] + 256 * FromBytesBig_LittleEndian(Tail(b))

\* int.from_bytes(b, byteorder="big"), for values TLC's integers hold
RECURSIVE FromBytesBig(_)
FromBytesBig(b) ==
    IF b = <<>> THEN 0 ELSE FromBytesBig(SubSeq(b, 1, Len(b) - 1)) * 256 + b[Len(b)]

\* the bytes of a little-endian field, most significant first
RECURSIVE Reverse(_)
Reverse(b) == IF b = <<>> THEN <<>> ELSE Append(Reverse(Tail(b)), Head(b))

\* n / 10.0 as its shortest decimal form, n an int
DivTen(n) ==
    LET a == IF n < 0 THEN 0 - n ELSE n
    IN  [neg |-> n < 0, whole |-> a \div 10, tenth |-> a % 10]

\* int.from_bytes(b, "little") / 10.0 by long division from the most
\* significant byte: the raw counter reaches 2^32 - 1, its quotient stays
\* below 2^31
RECURSIVE LongDivTen(_, _, _)
LongDivTen(msb, quot, rem) ==
    IF msb = <<>> THEN [neg |-> FALSE, whole |-> quot, tenth |-> rem]
    ELSE LET cur == rem * 256 + Head(msb)
         IN  LongDivTen(Tail(msb), quot * 256 + (cur \div 10), cur % 10)

\* the counter read from its three low bytes only
LittleDivTen_ThreeBytes(b) == LongDivTen(Reverse(SubSeq(b, 1, 3)), 0, 0)

LittleDivTen(b) == LongDivTen(Reverse(b), 0, 0)

\* the two bytes read as an unsigned number
UnpackShortBig_Unsigned(b) == b[1] * 256 + b[2]

\* struct.unpack(">h", b)[0]: signed 16-bit big-endian
UnpackShortBig(b) ==
    LET u == b[1] * 256 + b[2]
    IN  IF u >= 32768 THEN u - 65536 ELSE u

\* a dict as a function: d[key] = value, d.pop(key, None)
DictSet(d, key, value) ==
    [k \in DOMAIN d \cup {key} |-> IF k = key THEN value ELSE d[k]]

DictPop(d, key) == [k \in DOMAIN d \ {key} |-> d[k]]

EmptyDict == [k \in {} |-> None]

\* int.from_bytes(b, byteorder="little"), for values TLC's integers hold
FromBytesLittle(b) == FromBytesBig(Reverse(b))

\* int.from_bytes(b, byteorder="little", signed=True) of two bytes
FromBytesLittleSigned(b) ==
    LET u == FromBytesLittle(b)
    IN  IF u >= 32768 THEN u - 65536 ELSE u

\* float(n) / 1000, n a non-negative int: whole part and thousandths
DivThousand(n) == [whole |-> n \div 1000, milli |-> n % 1000]

\* c.upper() of every character c that a string literal can be written with
\* and that upper() changes, listed as <<c, c.upper()>>.  A character of the result
\* that no string literal can be written with is named by its code point.
UpperCaseOf ==
    LET pairs ==
        << <<"a", <<"A">>>>, <<"b", <<"B">>>>, <<"c", <<"C">>>>, <<"d", <<"D">>>>, <<"e", <<"E">>>>,
           <<"f", <<"F">>>>, <<"g", <<"G">>>>, <<"h", <<"H">>>>, <<"i", <<"I">>>>, <<"j", <<"J">>>>,
           <<"k", <<"K">>>>, <<"l", <<"L">>>>, <<"m", <<"M">>>>, <<"n", <<"N">>>>, <<"o", <<"O">>>>,
           <<"p", <<"P">>>>, <<"q", <<"Q">>>>, <<"r", <<"R">>>>, <<"s", <<"S">>>>, <<"t", <<"T">>>>,
           <<"u", <<"U">>>>, <<"v", <<"V">>>>, <<"w", <<"W">>>>, <<"x", <<"X">>>>, <<"y", <<"Y">>>>,
           <<"z", <<"Z">>>>, <<"µ", <<"Μ">>>>, <<"ß", <<"S", "S">>>>, <<"à", <<"À">>>>,
           <<"á", <<"Á">>>>, <<"â", <<"Â">>>>, <<"ã", <<"Ã">>>>, <<"ä", <<"Ä">>>>, <<"å", <<"Å">>>>,
           <<"æ", <<"Æ">>>>, <<"ç", <<"Ç">>>>, <<"è", <<"È">>>>, <<"é", <<"É">>>>, <<"ê", <<"Ê">>>>,
           <<"ë", <<"Ë">>>>, <<"ì", <<"Ì">>>>, <<"í", <<"Í">>>>, <<"î", <<"Î">>>>, <<"ï", <<"Ï">>>>,
           <<"ð", <<"Ð">>>>, <<"ñ", <<"Ñ">>>>, <<"ò", <<"Ò">>>>, <<"ó", <<"Ó">>>>, <<"ô", <<"Ô">>>>,
           <<"õ", <<"Õ">>>>, <<"ö", <<"Ö">>>>, <<"ø", <<"Ø">>>>, <<"ù", <<"Ù">>>>, <<"ú", <<"Ú">>>>,
           <<"û", <<"Û">>>>, <<"ü", <<"Ü">>>>, <<"ý", <<"Ý">>>>, <<"þ", <<"Þ">>>>,
           <<"ÿ", <<"U+0178">>>>, <<"ƀ", <<"U+0243">>>>, <<"ƃ", <<"Ƃ">>>>, <<"ƅ", <<"Ƅ">>>>,
           <<"ƈ", <<"Ƈ">>>>, <<"ƌ", <<"Ƌ">>>>, <<"ƒ", <<"Ƒ">>>>, <<"ƕ", <<"Ƕ">>>>, <<"ƙ", <<"Ƙ">>>>,
           <<"ƚ", <<"U+023D">>>>, <<"ƞ", <<"U+0220">>>>, <<"ơ", <<"Ơ">>>>, <<"ƣ", <<"Ƣ">>>>,
           <<"ƥ", <<"Ƥ">>>>, <<"ƨ", <<"Ƨ">>>>, <<"ƭ", <<"Ƭ">>>>, <<"ư", <<"Ư">>>>, <<"ƴ", <<"Ƴ">>>>,
           <<"ƶ", <<"Ƶ">>>>, <<"ƹ", <<"Ƹ">>>>, <<"ƽ", <<"Ƽ">>>>, <<"ƿ", <<"Ƿ">>>>, <<"ǅ", <<"Ǆ">>>>,
           <<"ǆ", <<"Ǆ">>>>, <<"ǈ", <<"Ǉ">>>>, <<"ǉ", <<"Ǉ">>>>, <<"ǋ", <<"Ǌ">>>>, <<"ǌ", <<"Ǌ">>>>,
           <<"ǎ", <<"Ǎ">>>>, <<"ǐ", <<"Ǐ">>>>, <<"ǒ", <<"Ǒ">>>>, <<"ǔ", <<"Ǔ">>>>, <<"ǖ", <<"Ǖ">>>>,
           <<"ǘ", <<"Ǘ">>>>, <<"ǚ", <<"Ǚ">>>>, <<"ǜ", <<"Ǜ">>>>, <<"ǝ", <<"Ǝ">>>>, <<"ǟ", <<"Ǟ">>>>,
           <<"ǡ", <<"Ǡ">>>>, <<"ǣ", <<"Ǣ">>>>, <<"ǥ", <<"Ǥ">>>>, <<"ǧ", <<"Ǧ">>>>, <<"ǩ", <<"Ǩ">>>>,
           <<"ǫ", <<"Ǫ">>>>, <<"ǭ", <<"Ǭ">>>>, <<"ǯ", <<"Ǯ">>>>, <<"ǰ", <<"J", "U+030C">>>>,
           <<"ǲ", <<"Ǳ">>>>, <<"ǳ", <<"Ǳ">>>>, <<"ǵ", <<"Ǵ">>>>, <<"ǹ", <<"Ǹ">>>>, <<"ǻ", <<"Ǻ">>>>,
           <<"ǽ", <<"Ǽ">>>>, <<"ǿ", <<"Ǿ">>>>, <<"ʀ", <<"Ʀ">>>>, <<"ʂ", <<"Ʂ">>>>, <<"ʃ", <<"Ʃ">>>>,
           <<"ʇ", <<"Ʇ">>>>, <<"ʈ", <<"Ʈ">>>>, <<"ʉ", <<"U+0244">>>>, <<"ʊ", <<"Ʊ">>>>,
           <<"ʋ", <<"Ʋ">>>>, <<"ʌ", <<"U+0245">>>>, <<"ʒ", <<"Ʒ">>>>, <<"ʝ", <<"Ʝ">>>>,
           <<"ʞ", <<"Ʞ">>>>, <<"ΐ", <<"Ι", "U+0308", "U+0301">>>>, <<"ά", <<"Ά">>>>, <<"έ", <<"Έ">>>>,
           <<"ή", <<"Ή">>>>, <<"ί", <<"Ί">>>>, <<"ΰ", <<"Υ", "U+0308", "U+0301">>>>, <<"α", <<"Α">>>>,
           <<"β", <<"Β">>>>, <<"γ", <<"Γ">>>>, <<"δ", <<"Δ">>>>, <<"ε", <<"Ε">>>>, <<"ζ", <<"Ζ">>>>,
           <<"η", <<"Η">>>>, <<"θ", <<"Θ">>>>, <<"ι", <<"Ι">>>>, <<"κ", <<"Κ">>>>, <<"λ", <<"Λ">>>>,
           <<"μ", <<"Μ">>>>, <<"ν", <<"Ν">>>>, <<"ξ", <<"Ξ">>>>, <<"ο", <<"Ο">>>>, <<"π", <<"Π">>>>,
           <<"ρ", <<"Ρ">>>>, <<"ς", <<"Σ">>>>, <<"σ", <<"Σ">>>>, <<"τ", <<"Τ">>>>, <<"υ", <<"Υ">>>>,
           <<"φ", <<"Φ">>>>, <<"χ", <<"Χ">>>>, <<"ψ", <<"Ψ">>>>, <<"ω", <<"Ω">>>>, <<"ϊ", <<"Ϊ">>>>,
           <<"ϋ", <<"Ϋ">>>>, <<"ό", <<"Ό">>>>, <<"ύ", <<"Ύ">>>>, <<"ώ", <<"Ώ">>>>, <<"ϐ", <<"Β">>>>,
           <<"ϑ", <<"Θ">>>>, <<"ϕ", <<"Φ">>>>, <<"ϖ", <<"Π">>>>, <<"ϗ", <<"Ϗ">>>>, <<"ϙ", <<"Ϙ">>>>,
           <<"ϛ", <<"Ϛ">>>>, <<"ϝ", <<"Ϝ">>>>, <<"ϟ", <<"Ϟ">>>>, <<"ϡ", <<"Ϡ">>>>, <<"ϣ", <<"Ϣ">>>>,
           <<"ϥ", <<"Ϥ">>>>, <<"ϧ", <<"Ϧ">>>>, <<"ϩ", <<"Ϩ">>>>, <<"ϫ", <<"Ϫ">>>>, <<"ϭ", <<"Ϭ">>>>,
           <<"ϯ", <<"Ϯ">>>>, <<"ϰ", <<"Κ">>>>, <<"ϱ", <<"Ρ">>>>, <<"ϲ", <<"Ϲ">>>>,
           <<"ϳ", <<"U+037F">>>>, <<"ϵ", <<"Ε">>>>, <<"ϸ", <<"Ϸ">>>>, <<"ϻ", <<"Ϻ">>>>,
           <<"ҁ", <<"Ҁ">>>>, <<"ҋ", <<"Ҋ">>>>, <<"ҍ", <<"Ҍ">>>>, <<"ҏ", <<"Ҏ">>>>, <<"ґ", <<"Ґ">>>>,
           <<"ғ", <<"Ғ">>>>, <<"ҕ", <<"Ҕ">>>>, <<"җ", <<"Җ">>>>, <<"ҙ", <<"Ҙ">>>>, <<"қ", <<"Қ">>>>,
           <<"ҝ", <<"Ҝ">>>>, <<"ҟ", <<"Ҟ">>>>, <<"ҡ", <<"Ҡ">>>>, <<"ң", <<"Ң">>>>, <<"ҥ", <<"Ҥ">>>>,
           <<"ҧ", <<"Ҧ">>>>, <<"ҩ", <<"Ҩ">>>>, <<"ҫ", <<"Ҫ">>>>, <<"ҭ", <<"Ҭ">>>>, <<"ү", <<"Ү">>>>,
           <<"ұ", <<"Ұ">>>>, <<"ҳ", <<"Ҳ">>>>, <<"ҵ", <<"Ҵ">>>>, <<"ҷ", <<"Ҷ">>>>, <<"ҹ", <<"Ҹ">>>>,
           <<"һ", <<"Һ">>>>, <<"ҽ", <<"Ҽ">>>>, <<"ҿ", <<"Ҿ">>>>, <<"ӂ", <<"Ӂ">>>>, <<"ӄ", <<"Ӄ">>>>,
           <<"ӆ", <<"Ӆ">>>>, <<"ӈ", <<"Ӈ">>>>, <<"ӊ", <<"Ӊ">>>>, <<"ӌ", <<"Ӌ">>>>, <<"ӎ", <<"Ӎ">>>>,
           <<"ӏ", <<"Ӏ">>>>, <<"ӑ", <<"Ӑ">>>>, <<"ӓ", <<"Ӓ">>>>, <<"ӕ", <<"Ӕ">>>>, <<"ӗ", <<"Ӗ">>>>,
           <<"ә", <<"Ә">>>>, <<"ӛ", <<"Ӛ">>>>, <<"ӝ", <<"Ӝ">>>>, <<"ӟ", <<"Ӟ">>>>, <<"ӡ", <<"Ӡ">>>>,
           <<"ӣ", <<"Ӣ">>>>, <<"ӥ", <<"Ӥ">>>>, <<"ӧ", <<"Ӧ">>>>, <<"ө", <<"Ө">>>>, <<"ӫ", <<"Ӫ">>>>,
           <<"ӭ", <<"Ӭ">>>>, <<"ӯ", <<"Ӯ">>>>, <<"ӱ", <<"Ӱ">>>>, <<"ӳ", <<"Ӳ">>>>, <<"ӵ", <<"Ӵ">>>>,
           <<"ӷ", <<"Ӷ">>>>, <<"ӹ", <<"Ӹ">>>>, <<"ӻ", <<"Ӻ">>>>, <<"ӽ", <<"Ӽ">>>>, <<"ӿ", <<"Ӿ">>>>,
           <<"ր", <<"U+0550">>>>, <<"ց", <<"U+0551">>>>, <<"ւ", <<"U+0552">>>>, <<"փ", <<"U+0553">>>>,
           <<"ք", <<"U+0554">>>>, <<"օ", <<"U+0555">>>>, <<"ֆ", <<"U+0556">>>>,
           <<"և", <<"U+0535", "U+0552">>>>, <<"ა", <<"Ა">>>>, <<"ბ", <<"Ბ">>>>, <<"გ", <<"Გ">>>>,
           <<"დ", <<"Დ">>>>, <<"ე", <<"Ე">>>>, <<"ვ", <<"Ვ">>>>, <<"ზ", <<"Ზ">>>>, <<"თ", <<"Თ">>>>,
           <<"ი", <<"Ი">>>>, <<"კ", <<"Კ">>>>, <<"ლ", <<"Ლ">>>>, <<"მ", <<"Მ">>>>, <<"ნ", <<"Ნ">>>>,
           <<"ო", <<"Ო">>>>, <<"პ", <<"Პ">>>>, <<"ჟ", <<"Ჟ">>>>, <<"რ", <<"Რ">>>>, <<"ს", <<"Ს">>>>,
           <<"ტ", <<"Ტ">>>>, <<"უ", <<"Უ">>>>, <<"ფ", <<"Ფ">>>>, <<"ქ", <<"Ქ">>>>, <<"ღ", <<"Ღ">>>>,
           <<"ყ", <<"Ყ">>>>, <<"შ", <<"Შ">>>>, <<"ჩ", <<"Ჩ">>>>, <<"ც", <<"Ც">>>>, <<"ძ", <<"Ძ">>>>,
           <<"წ", <<"Წ">>>>, <<"ჭ", <<"Ჭ">>>>, <<"ხ", <<"Ხ">>>>, <<"ჯ", <<"Ჯ">>>>, <<"ჰ", <<"Ჰ">>>>,
           <<"ჱ", <<"Ჱ">>>>, <<"ჲ", <<"Ჲ">>>>, <<"ჳ", <<"Ჳ">>>>, <<"ჴ", <<"Ჴ">>>>, <<"ჵ", <<"Ჵ">>>>,
           <<"ჶ", <<"Ჶ">>>>, <<"ჷ", <<"Ჷ">>>>, <<"ჸ", <<"Ჸ">>>>, <<"ჹ", <<"Ჹ">>>>, <<"ჺ", <<"Ჺ">>>>,
           <<"ჽ", <<"Ჽ">>>>, <<"ჾ", <<"Ჾ">>>>, <<"ჿ", <<"Ჿ">>>>, <<"ᏸ", <<"Ᏸ">>>>, <<"ᏹ", <<"Ᏹ">>>>,
           <<"ᏺ", <<"Ᏺ">>>>, <<"ᏻ", <<"Ᏻ">>>>, <<"ᏼ", <<"Ᏼ">>>>, <<"ᏽ", <<"Ᏽ">>>>,
           <<"ᲀ", <<"U+0412">>>>, <<"ᲁ", <<"U+0414">>>>, <<"ᲂ", <<"U+041E">>>>, <<"ᲃ", <<"U+0421">>>>,
           <<"ᲄ", <<"U+0422">>>>, <<"ᲅ", <<"U+0422">>>>, <<"ᲆ", <<"U+042A">>>>, <<"ᲇ", <<"U+0462">>>>,
           <<"ᲈ", <<"U+A64A">>>>, <<"ᶎ", <<"Ᶎ">>>>, <<"ẁ", <<"Ẁ">>>>, <<"ẃ", <<"Ẃ">>>>,
           <<"ẅ", <<"Ẅ">>>>, <<"ẇ", <<"Ẇ">>>>, <<"ẉ", <<"Ẉ">>>>, <<"ẋ", <<"Ẋ">>>>, <<"ẍ", <<"Ẍ">>>>,
           <<"ẏ", <<"Ẏ">>>>, <<"ẑ", <<"Ẑ">>>>, <<"ẓ", <<"Ẓ">>>>, <<"ẕ", <<"Ẕ">>>>,
           <<"ẖ", <<"H", "U+0331">>>>, <<"ẗ", <<"T", "U+0308">>>>, <<"ẘ", <<"W", "U+030A">>>>,
           <<"ẙ", <<"Y", "U+030A">>>>, <<"ẚ", <<"A", "ʾ">>>>, <<"ẛ", <<"U+1E60">>>>, <<"ạ", <<"Ạ">>>>,
           <<"ả", <<"Ả">>>>, <<"ấ", <<"Ấ">>>>, <<"ầ", <<"Ầ">>>>, <<"ẩ", <<"Ẩ">>>>, <<"ẫ", <<"Ẫ">>>>,
           <<"ậ", <<"Ậ">>>>, <<"ắ", <<"Ắ">>>>, <<"ằ", <<"Ằ">>>>, <<"ẳ", <<"Ẳ">>>>, <<"ẵ", <<"Ẵ">>>>,
           <<"ặ", <<"Ặ">>>>, <<"ẹ", <<"Ẹ">>>>, <<"ẻ", <<"Ẻ">>>>, <<"ẽ", <<"Ẽ">>>>, <<"ế", <<"Ế">>>>,
           <<"ề", <<"Ề">>>>, <<"ể", <<"Ể">>>>, <<"ễ", <<"Ễ">>>>, <<"ệ", <<"Ệ">>>>, <<"ỉ", <<"Ỉ">>>>,
           <<"ị", <<"Ị">>>>, <<"ọ", <<"Ọ">>>>, <<"ỏ", <<"Ỏ">>>>, <<"ố", <<"Ố">>>>, <<"ồ", <<"Ồ">>>>,
           <<"ổ", <<"Ổ">>>>, <<"ỗ", <<"Ỗ">>>>, <<"ộ", <<"Ộ">>>>, <<"ớ", <<"Ớ">>>>, <<"ờ", <<"Ờ">>>>,
           <<"ở", <<"Ở">>>>, <<"ỡ", <<"Ỡ">>>>, <<"ợ", <<"Ợ">>>>, <<"ụ", <<"Ụ">>>>, <<"ủ", <<"Ủ">>>>,
           <<"ứ", <<"Ứ">>>>, <<"ừ", <<"Ừ">>>>, <<"ử", <<"Ử">>>>, <<"ữ", <<"Ữ">>>>, <<"ự", <<"Ự">>>>,
           <<"ỳ", <<"Ỳ">>>>, <<"ỵ", <<"Ỵ">>>>, <<"ỷ", <<"Ỷ">>>>, <<"ỹ", <<"Ỹ">>>>, <<"ỻ", <<"Ỻ">>>>,
           <<"ỽ", <<"Ỽ">>>>, <<"ỿ", <<"Ỿ">>>>, <<"ᾀ", <<"U+1F08", "Ι">>>>, <<"ᾁ", <<"U+1F09", "Ι">>>>,
           <<"ᾂ", <<"U+1F0A", "Ι">>>>, <<"ᾃ", <<"U+1F0B", "Ι">>>>, <<"ᾄ", <<"U+1F0C", "Ι">>>>,
           <<"ᾅ", <<"U+1F0D", "Ι">>>>, <<"ᾆ", <<"U+1F0E", "Ι">>>>, <<"ᾇ", <<"U+1F0F", "Ι">>>>,
           <<"ᾈ", <<"U+1F08", "Ι">>>>, <<"ᾉ", <<"U+1F09", "Ι">>>>, <<"ᾊ", <<"U+1F0A", "Ι">>>>,
           <<"ᾋ", <<"U+1F0B", "Ι">>>>, <<"ᾌ", <<"U+1F0C", "Ι">>>>, <<"ᾍ", <<"U+1F0D", "Ι">>>>,
           <<"ᾎ", <<"U+1F0E", "Ι">>>>, <<"ᾏ", <<"U+1F0F", "Ι">>>>, <<"ᾐ", <<"U+1F28", "Ι">>>>,
           <<"ᾑ", <<"U+1F29", "Ι">>>>, <<"ᾒ", <<"U+1F2A", "Ι">>>>, <<"ᾓ", <<"U+1F2B", "Ι">>>>,
           <<"ᾔ", <<"U+1F2C", "Ι">>>>, <<"ᾕ", <<"U+1F2D", "Ι">>>>, <<"ᾖ", <<"U+1F2E", "Ι">>>>,
           <<"ᾗ", <<"U+1F2F", "Ι">>>>, <<"ᾘ", <<"U+1F28", "Ι">>>>, <<"ᾙ", <<"U+1F29", "Ι">>>>,
           <<"ᾚ", <<"U+1F2A", "Ι">>>>, <<"ᾛ", <<"U+1F2B", "Ι">>>>, <<"ᾜ", <<"U+1F2C", "Ι">>>>,
           <<"ᾝ", <<"U+1F2D", "Ι">>>>, <<"ᾞ", <<"U+1F2E", "Ι">>>>, <<"ᾟ", <<"U+1F2F", "Ι">>>>,
           <<"ᾠ", <<"U+1F68", "Ι">>>>, <<"ᾡ", <<"U+1F69", "Ι">>>>, <<"ᾢ", <<"U+1F6A", "Ι">>>>,
           <<"ᾣ", <<"U+1F6B", "Ι">>>>, <<"ᾤ", <<"U+1F6C", "Ι">>>>, <<"ᾥ", <<"U+1F6D", "Ι">>>>,
           <<"ᾦ", <<"U+1F6E", "Ι">>>>, <<"ᾧ", <<"U+1F6F", "Ι">>>>, <<"ᾨ", <<"U+1F68", "Ι">>>>,
           <<"ᾩ", <<"U+1F69", "Ι">>>>, <<"ᾪ", <<"U+1F6A", "Ι">>>>, <<"ᾫ", <<"U+1F6B", "Ι">>>>,
           <<"ᾬ", <<"U+1F6C", "Ι">>>>, <<"ᾭ", <<"U+1F6D", "Ι">>>>, <<"ᾮ", <<"U+1F6E", "Ι">>>>,
           <<"ᾯ", <<"U+1F6F", "Ι">>>>, <<"ᾰ", <<"Ᾰ">>>>, <<"ᾱ", <<"Ᾱ">>>>, <<"ᾲ", <<"Ὰ", "Ι">>>>,
           <<"ᾳ", <<"Α", "Ι">>>>, <<"ᾴ", <<"Ά", "Ι">>>>, <<"ᾶ", <<"Α", "U+0342">>>>,
           <<"ᾷ", <<"Α", "U+0342", "Ι">>>>, <<"ᾼ", <<"Α", "Ι">>>>, <<"ι", <<"Ι">>>>,
           <<"ῂ", <<"Ὴ", "Ι">>>>, <<"ῃ", <<"Η", "Ι">>>>, <<"ῄ", <<"Ή", "Ι">>>>,
           <<"ῆ", <<"Η", "U+0342">>>>, <<"ῇ", <<"Η", "U+0342", "Ι">>>>, <<"ῌ", <<"Η", "Ι">>>>,
           <<"ῐ", <<"Ῐ">>>>, <<"ῑ", <<"Ῑ">>>>, <<"ῒ", <<"Ι", "U+0308", "U+0300">>>>,
           <<"ΐ", <<"Ι", "U+0308", "U+0301">>>>, <<"ῖ", <<"Ι", "U+0342">>>>,
           <<"ῗ", <<"Ι", "U+0308", "U+0342">>>>, <<"ῠ", <<"Ῠ">>>>, <<"ῡ", <<"Ῡ">>>>,
           <<"ῢ", <<"Υ", "U+0308", "U+0300">>>>, <<"ΰ", <<"Υ", "U+0308", "U+0301">>>>,
           <<"ῤ", <<"Ρ", "U+0313">>>>, <<"ῥ", <<"Ῥ">>>>, <<"ῦ", <<"Υ", "U+0342">>>>,
           <<"ῧ", <<"Υ", "U+0308", "U+0342">>>>, <<"ῲ", <<"Ὼ", "Ι">>>>, <<"ῳ", <<"Ω", "Ι">>>>,
           <<"ῴ", <<"Ώ", "Ι">>>>, <<"ῶ", <<"Ω", "U+0342">>>>, <<"ῷ", <<"Ω", "U+0342", "Ι">>>>,
           <<"ῼ", <<"Ω", "Ι">>>>, <<"ↄ", <<"Ↄ">>>>, <<"ⓐ", <<"Ⓐ">>>>, <<"ⓑ", <<"Ⓑ">>>>,
           <<"ⓒ", <<"Ⓒ">>>>, <<"ⓓ", <<"Ⓓ">>>>, <<"ⓔ", <<"Ⓔ">>>>, <<"ⓕ", <<"Ⓕ">>>>, <<"ⓖ", <<"Ⓖ">>>>,
           <<"ⓗ", <<"Ⓗ">>>>, <<"ⓘ", <<"Ⓘ">>>>, <<"ⓙ", <<"Ⓙ">>>>, <<"ⓚ", <<"Ⓚ">>>>, <<"ⓛ", <<"Ⓛ">>>>,
           <<"ⓜ", <<"Ⓜ">>>>, <<"ⓝ", <<"Ⓝ">>>>, <<"ⓞ", <<"Ⓞ">>>>, <<"ⓟ", <<"Ⓟ">>>>, <<"ⓠ", <<"Ⓠ">>>>,
           <<"ⓡ", <<"Ⓡ">>>>, <<"ⓢ", <<"Ⓢ">>>>, <<"ⓣ", <<"Ⓣ">>>>, <<"ⓤ", <<"Ⓤ">>>>, <<"ⓥ", <<"Ⓥ">>>>,
           <<"ⓦ", <<"Ⓦ">>>>, <<"ⓧ", <<"Ⓧ">>>>, <<"ⓨ", <<"Ⓨ">>>>, <<"ⓩ", <<"Ⓩ">>>>, <<"ⲁ", <<"Ⲁ">>>>,
           <<"ⲃ", <<"Ⲃ">>>>, <<"ⲅ", <<"Ⲅ">>>>, <<"ⲇ", <<"Ⲇ">>>>, <<"ⲉ", <<"Ⲉ">>>>, <<"ⲋ", <<"Ⲋ">>>>,
           <<"ⲍ", <<"Ⲍ">>>>, <<"ⲏ", <<"Ⲏ">>>>, <<"ⲑ", <<"Ⲑ">>>>, <<"ⲓ", <<"Ⲓ">>>>, <<"ⲕ", <<"Ⲕ">>>>,
           <<"ⲗ", <<"Ⲗ">>>>, <<"ⲙ", <<"Ⲙ">>>>, <<"ⲛ", <<"Ⲛ">>>>, <<"ⲝ", <<"Ⲝ">>>>, <<"ⲟ", <<"Ⲟ">>>>,
           <<"ⲡ", <<"Ⲡ">>>>, <<"ⲣ", <<"Ⲣ">>>>, <<"ⲥ", <<"Ⲥ">>>>, <<"ⲧ", <<"Ⲧ">>>>, <<"ⲩ", <<"Ⲩ">>>>,
           <<"ⲫ", <<"Ⲫ">>>>, <<"ⲭ", <<"Ⲭ">>>>, <<"ⲯ", <<"Ⲯ">>>>, <<"ⲱ", <<"Ⲱ">>>>, <<"ⲳ", <<"Ⲳ">>>>,
           <<"ⲵ", <<"Ⲵ">>>>, <<"ⲷ", <<"Ⲷ">>>>, <<"ⲹ", <<"Ⲹ">>>>, <<"ⲻ", <<"Ⲻ">>>>, <<"ⲽ", <<"Ⲽ">>>>,
           <<"ⲿ", <<"Ⲿ">>>>, <<"ⳁ", <<"Ⳁ">>>>, <<"ⳃ", <<"Ⳃ">>>>, <<"ⳅ", <<"Ⳅ">>>>, <<"ⳇ", <<"Ⳇ">>>>,
           <<"ⳉ", <<"Ⳉ">>>>, <<"ⳋ", <<"Ⳋ">>>>, <<"ⳍ", <<"Ⳍ">>>>, <<"ⳏ", <<"Ⳏ">>>>, <<"ⳑ", <<"Ⳑ">>>>,
           <<"ⳓ", <<"Ⳓ">>>>, <<"ⳕ", <<"Ⳕ">>>>, <<"ⳗ", <<"Ⳗ">>>>, <<"ⳙ", <<"Ⳙ">>>>, <<"ⳛ", <<"Ⳛ">>>>,
           <<"ⳝ", <<"Ⳝ">>>>, <<"ⳟ", <<"Ⳟ">>>>, <<"ⳡ", <<"Ⳡ">>>>, <<"ⳣ", <<"Ⳣ">>>>, <<"ⳬ", <<"Ⳬ">>>>,
           <<"ⳮ", <<"Ⳮ">>>>, <<"ⳳ", <<"Ⳳ">>>>, <<"ꚁ", <<"Ꚁ">>>>, <<"ꚃ", <<"Ꚃ">>>>, <<"ꚅ", <<"Ꚅ">>>>,
           <<"ꚇ", <<"Ꚇ">>>>, <<"ꚉ", <<"Ꚉ">>>>, <<"ꚋ", <<"Ꚋ">>>>, <<"ꚍ", <<"Ꚍ">>>>, <<"ꚏ", <<"Ꚏ">>>>,
           <<"ꚑ", <<"Ꚑ">>>>, <<"ꚓ", <<"Ꚓ">>>>, <<"ꚕ", <<"Ꚕ">>>>, <<"ꚗ", <<"Ꚗ">>>>, <<"ꚙ", <<"Ꚙ">>>>,
           <<"ꚛ", <<"Ꚛ">>>>, <<"ꞁ", <<"Ꞁ">>>>, <<"ꞃ", <<"Ꞃ">>>>, <<"ꞅ", <<"Ꞅ">>>>, <<"ꞇ", <<"Ꞇ">>>>,
           <<"ꞌ", <<"Ꞌ">>>>, <<"ꞑ", <<"Ꞑ">>>>, <<"ꞓ", <<"Ꞓ">>>>, <<"ꞔ", <<"Ꞔ">>>>, <<"ꞗ", <<"Ꞗ">>>>,
           <<"ꞙ", <<"Ꞙ">>>>, <<"ꞛ", <<"Ꞛ">>>>, <<"ꞝ", <<"Ꞝ">>>>, <<"ꞟ", <<"Ꞟ">>>>, <<"ꞡ", <<"Ꞡ">>>>,
           <<"ꞣ", <<"Ꞣ">>>>, <<"ꞥ", <<"Ꞥ">>>>, <<"ꞧ", <<"Ꞧ">>>>, <<"ꞩ", <<"Ꞩ">>>>, <<"ꞵ", <<"Ꞵ">>>>,
           <<"ꞷ", <<"Ꞷ">>>>, <<"ꞹ", <<"Ꞹ">>>>, <<"ꞻ", <<"Ꞻ">>>>, <<"ꞽ", <<"Ꞽ">>>>, <<"ꞿ", <<"Ꞿ">>>>,
           <<"ꟁ", <<"Ꟁ">>>>, <<"ꟃ", <<"Ꟃ">>>>, <<"ꟈ", <<"Ꟈ">>>>, <<"ꟊ", <<"Ꟊ">>>>, <<"ꟑ", <<"Ꟑ">>>>,
           <<"ꟗ", <<"Ꟗ">>>>, <<"ꟙ", <<"Ꟙ">>>>, <<"ꟶ", <<"Ꟶ">>>>, <<"ꮀ", <<"Ꮀ">>>>, <<"ꮁ", <<"Ꮁ">>>>,
           <<"ꮂ", <<"Ꮂ">>>>, <<"ꮃ", <<"Ꮃ">>>>, <<"ꮄ", <<"Ꮄ">>>>, <<"ꮅ", <<"Ꮅ">>>>, <<"ꮆ", <<"Ꮆ">>>>,
           <<"ꮇ", <<"Ꮇ">>>>, <<"ꮈ", <<"Ꮈ">>>>, <<"ꮉ", <<"Ꮉ">>>>, <<"ꮊ", <<"Ꮊ">>>>, <<"ꮋ", <<"Ꮋ">>>>,
           <<"ꮌ", <<"Ꮌ">>>>, <<"ꮍ", <<"Ꮍ">>>>, <<"ꮎ", <<"Ꮎ">>>>, <<"ꮏ", <<"Ꮏ">>>>, <<"ꮐ", <<"Ꮐ">>>>,
           <<"ꮑ", <<"Ꮑ">>>>, <<"ꮒ", <<"Ꮒ">>>>, <<"ꮓ", <<"Ꮓ">>>>, <<"ꮔ", <<"Ꮔ">>>>, <<"ꮕ", <<"Ꮕ">>>>,
           <<"ꮖ", <<"Ꮖ">>>>, <<"ꮗ", <<"Ꮗ">>>>, <<"ꮘ", <<"Ꮘ">>>>, <<"ꮙ", <<"Ꮙ">>>>, <<"ꮚ", <<"Ꮚ">>>>,
           <<"ꮛ", <<"Ꮛ">>>>, <<"ꮜ", <<"Ꮜ">>>>, <<"ꮝ", <<"Ꮝ">>>>, <<"ꮞ", <<"Ꮞ">>>>, <<"ꮟ", <<"Ꮟ">>>>,
           <<"ꮠ", <<"Ꮠ">>>>, <<"ꮡ", <<"Ꮡ">>>>, <<"ꮢ", <<"Ꮢ">>>>, <<"ꮣ", <<"Ꮣ">>>>, <<"ꮤ", <<"Ꮤ">>>>,
           <<"ꮥ", <<"Ꮥ">>>>, <<"ꮦ", <<"Ꮦ">>>>, <<"ꮧ", <<"Ꮧ">>>>, <<"ꮨ", <<"Ꮨ">>>>, <<"ꮩ", <<"Ꮩ">>>>,
           <<"ꮪ", <<"Ꮪ">>>>, <<"ꮫ", <<"Ꮫ">>>>, <<"ꮬ", <<"Ꮬ">>>>, <<"ꮭ", <<"Ꮭ">>>>, <<"ꮮ", <<"Ꮮ">>>>,
           <<"ꮯ", <<"Ꮯ">>>>, <<"ꮰ", <<"Ꮰ">>>>, <<"ꮱ", <<"Ꮱ">>>>, <<"ꮲ", <<"Ꮲ">>>>, <<"ꮳ", <<"Ꮳ">>>>,
           <<"ꮴ", <<"Ꮴ">>>>, <<"ꮵ", <<"Ꮵ">>>>, <<"ꮶ", <<"Ꮶ">>>>, <<"ꮷ", <<"Ꮷ">>>>, <<"ꮸ", <<"Ꮸ">>>>,
           <<"ꮹ", <<"Ꮹ">>>>, <<"ꮺ", <<"Ꮺ">>>>, <<"ꮻ", <<"Ꮻ">>>>, <<"ꮼ", <<"Ꮼ">>>>, <<"ꮽ", <<"Ꮽ">>>>,
           <<"ꮾ", <<"Ꮾ">>>>, <<"ꮿ", <<"Ꮿ">>>> >>
    IN  [c \in {pairs[j][1] : j \in DOMAIN pairs} |->
            pairs[CHOOSE j \in DOMAIN pairs : pairs[j][1] = c][2]]

\* s.upper()
RECURSIVE Upper(_)
Upper(s) ==
    IF s = <<>> THEN <<>>
    ELSE (IF Head(s) \in DOMAIN UpperCaseOf THEN UpperCaseOf[Head(s)]
          ELSE <<Head(s)>>) \o Upper(Tail(s))

\* sub in s, for strings
Contains(sub, s) ==
    \E i \in 1..(Len(s) - Len(sub) + 1) : SubSeq(s, i, i + Len(sub) - 1) = sub

Min(S) == CHOOSE m \in S : \A n \in S : m <= n

\* s.replace(c, "") for a one-character c
Remove(s, c) == SelectSeq(s, LAMBDA x : x # c)

----------------------------------------------------------------------------
\* scanner.py: the pure functions

\* extract_serial_from_mac(mac): the identity string, or None (ValueError caught)
extract_serial_from_mac(mac) ==
    LET parts == Split(mac, ":")
    IN  IF Len(parts) # 6 THEN NoneStr
        ELSE LET p3 == IntBase16(parts[4])
                 p4 == IntBase16(parts[5])
                 p5 == IntBase16(parts[6])
             IN  IF ~p3.ok \/ ~p4.ok \/ ~p5.ok THEN NoneStr
                 ELSE Str(p3.value * 65536 + p4.value * 256 + p5.value)

\* the reading parse_elehant_data builds from a payload of at least 14 bytes,
\* bytes it lacks read as 0
ReadingOfPadded(data) ==
    [serial |-> Str(FromBytesBig(Slice(data, IDX_SERIAL_START, IDX_SERIAL_START + 3))),
     counter_liters |-> LittleDivTen(Slice(data, IDX_COUNTER_START, IDX_COUNTER_START + 4)),
     battery |-> At(data, IDX_BATTERY),
     temperature |-> DivTen(UnpackShortBig(Slice(data \o <<0, 0>>, IDX_TEMP_START, IDX_TEMP_START + 2)))]

\* parse_elehant_data without the test of the first byte
parse_elehant_data_NoMarkerCheck(data) ==
    IF Len(data) < MIN_LENGTH THEN None ELSE ReadingOfPadded(data)

\* parse_elehant_data, were its length test "len(data) < 15"
parse_elehant_data_GuardFifteen(data) ==
    IF Len(data) < MIN_LENGTH - 1 THEN None
    ELSE IF At(data, 0) # EXPECTED_FIRST_BYTE THEN None
    ELSE ReadingOfPadded(data)

\* parse_elehant_data, were its length test "len(data) <= 16"
parse_elehant_data_GuardInclusive(data) ==
    IF Len(data) <= MIN_LENGTH THEN None
    ELSE IF At(data, 0) # EXPECTED_FIRST_BYTE THEN None
    ELSE ReadingOfPadded(data)

\* parse_elehant_data(data): the parsed dict, or None
parse_elehant_data(data) ==
    IF Len(data) < MIN_LENGTH THEN None
    ELSE IF At(data, 0) # EXPECTED_FIRST_BYTE THEN None
    ELSE [serial |-> Str(FromBytesBig(Slice(data, IDX_SERIAL_START, IDX_SERIAL_START + 3))),
          counter_liters |-> LittleDivTen(Slice(data, IDX_COUNTER_START, IDX_COUNTER_START + 4)),
          battery |-> At(data, IDX_BATTERY),
          temperature |-> DivTen(UnpackShortBig(Slice(data, IDX_TEMP_START, IDX_TEMP_START + 2)))]

----------------------------------------------------------------------------
\* sensor.py: the polling scanner's view of a BluetoothServiceInfoBleak.
\* A service info is [address, name, service_uuids, manufacturer_data,
\* service_data]; the dicts are sequences of <<key, value>> items in insertion
\* order.  Its rssi and time only pass through to attributes and are left out.

\* "0000fff0-0000-1000-8000-00805f9b34fb"
ELEHANT_SERVICE_UUID ==
    <<"0", "0", "0", "0", "f", "f", "f", "0", "-", "0", "0", "0", "0", "-", "1", "0", "0", "0",
      "-", "8", "0", "0", "0", "-", "0", "0", "8", "0", "5", "f", "9", "b", "3", "4", "f", "b">>
ELEHANT_MANUFACTURER_ID == 65535

\* Names sensor.py imports from const.py (sensor.py 36-56).  const.py binds
\* none of them, so the repository gives them no value and `import sensor`
\* fails as it stands; the polling scanner is modelled as it runs once const.py
\* binds them.  Each stands here for the value it would be bound to, and only
\* that the two device types differ is used.
MEASUREMENT_CUBIC_METERS == "MEASUREMENT_CUBIC_METERS"
DEVICE_TYPE_WATER == "DEVICE_TYPE_WATER"
DEVICE_TYPE_GAS == "DEVICE_TYPE_GAS"
ATTR_BATTERY_LEVEL == "ATTR_BATTERY_LEVEL"

\* key in d, d[key]
HasKey(items, key) == \E i \in 1..Len(items) : items[i][1] = key

ItemOf(items, key) == items[CHOOSE i \in 1..Len(items) : items[i][1] = key][2]

\* the items of service_data the loops over it stop at
ServiceMatches(service_data, min_len) ==
    {i \in 1..Len(service_data) :
        /\ Contains(ELEHANT_SERVICE_UUID, service_data[i][1])
        /\ Len(service_data[i][2]) >= min_len}

\* _is_elehant_device(service_info)
IsElehantDevice(si) ==
    \/ ELEHANT_SERVICE_UUID \in si.service_uuids
    \/ si.manufacturer_data # <<>> /\ HasKey(si.manufacturer_data, ELEHANT_MANUFACTURER_ID)
    \/ si.name # <<>> /\ Contains(<<"E", "L", "E", "H", "A", "N", "T">>, Upper(si.name))

\* _extract_device_id(service_info): the id string, or None
ExtractDeviceId(si) ==
    IF /\ si.manufacturer_data # <<>>
       /\ HasKey(si.manufacturer_data, ELEHANT_MANUFACTURER_ID)
       /\ Len(ItemOf(si.manufacturer_data, ELEHANT_MANUFACTURER_ID)) >= 4
    THEN Str(FromBytesLittle(Slice(ItemOf(si.manufacturer_data, ELEHANT_MANUFACTURER_ID), 0, 4)))
    ELSE IF ServiceMatches(si.service_data, 4) # {}
    THEN Str(FromBytesLittle(Slice(si.service_data[Min(ServiceMatches(si.service_data, 4))][2], 0, 4)))
    ELSE IF si.address # <<>> THEN Remove(si.address, ":")
    ELSE NoneStr

\* the keys one payload of at least 8 bytes sets in the data dict
PayloadFields(b) ==
    [k \in {"counter"} \cup (IF Len(b) >= 9 THEN {"battery"} ELSE {})
                       \cup (IF Len(b) >= 12 THEN {"temperature"} ELSE {}) |->
        CASE k = "counter" -> FromBytesLittle(Slice(b, 4, 8))
          [] k = "battery" -> At(b, 8)
          [] k = "temperature" -> DivTen(FromBytesLittleSigned(Slice(b, 10, 12)))]

\* d after the assignments of e's keys
Overlay(d, e) == [k \in DOMAIN d \cup DOMAIN e |-> IF k \in DOMAIN e THEN e[k] ELSE d[k]]

\* _parse_advertisement_data(service_info): the data dict, or None
ParseAdvertisementData(si) ==
    LET from_mfg ==
            IF /\ si.manufacturer_data # <<>>
               /\ HasKey(si.manufacturer_data, ELEHANT_MANUFACTURER_ID)
               /\ Len(ItemOf(si.manufacturer_data, ELEHANT_MANUFACTURER_ID)) >= 8
            THEN PayloadFields(ItemOf(si.manufacturer_data, ELEHANT_MANUFACTURER_ID))
            ELSE EmptyDict
        data ==
            IF ServiceMatches(si.service_data, 8) = {} THEN from_mfg
            ELSE Overlay(from_mfg,
                     PayloadFields(si.service_data[Min(ServiceMatches(si.service_data, 8))][2]))
    IN  IF "counter" \in DOMAIN data THEN data ELSE None

\* ElehantCounterSensor.__init__
CounterSensor(device_type, unit) ==
    [kind |-> "counter", device_type |-> device_type, unit |-> unit,
     native_value |-> None, attributes |-> EmptyDict]

\* ElehantTemperatureSensor.__init__
TemperatureSensor == [kind |-> "temperature", native_value |-> None]

\* ElehantCounterSensor._handle_update(data)
CounterHandleUpdate(sensor, data) ==
    [sensor EXCEPT
        !.native_value =
            IF "counter" \notin DOMAIN data THEN @
            ELSE IF sensor.unit = MEASUREMENT_CUBIC_METERS /\ sensor.device_type = DEVICE_TYPE_WATER
            THEN DivThousand(data["counter"])
            ELSE [whole |-> data["counter"], milli |-> 0],  \* float(n)
        !.attributes =
            IF "battery" \in DOMAIN data
            THEN DictSet(@, ATTR_BATTERY_LEVEL, data["battery"]) ELSE @]

\* ElehantTemperatureSensor._handle_update(data)
TemperatureHandleUpdate(sensor, data) ==
    IF "temperature" \in DOMAIN data
    THEN [sensor EXCEPT !.native_value = data["temperature"]] ELSE sensor

\* f"{device_id}_temp"
TempKey(device_id) == device_id \o <<"_", "t", "e", "m", "p">>

\* what _process_device_sync reads off a service info: whether it is a meter,
\* the id and the data dict
ReadServiceInfo(si) ==
    [is_elehant |-> IsElehantDevice(si),
     device_id |-> ExtractDeviceId(si),
     data |-> ParseAdvertisementData(si)]

\* what _process_device_sync then does to self.devices
UpdateSensors(devices, seen) ==
    IF ~seen.is_elehant THEN devices
    ELSE LET device_id == seen.device_id
             data == seen.data
             main ==
                 IF device_id \in DOMAIN devices /\ devices[device_id].kind = "counter"
                 THEN [devices EXCEPT ![device_id] = CounterHandleUpdate(@, data)]
                 ELSE devices
         IN  IF device_id = NoneStr \/ device_id = <<>> THEN devices
             ELSE IF device_id \notin DOMAIN devices THEN devices
             ELSE IF data = None THEN devices
             ELSE IF TempKey(device_id) \in DOMAIN main /\ main[TempKey(device_id)].kind = "temperature"
             THEN [main EXCEPT ![TempKey(device_id)] = TemperatureHandleUpdate(@, data)]
             ELSE main

\* _process_device_sync(service_info): self.devices' sensors afterwards
ProcessDeviceSync(devices, si) == UpdateSensors(devices, ReadServiceInfo(si))

----------------------------------------------------------------------------
\* The installation: the config entries Home Assistant holds, and the radio
\* traffic in range.

\* the key __init__.py keeps the ElehantScanner under in hass.data[DOMAIN]
SCANNER_KEY == <<"s", "c", "a", "n", "n", "e", "r">>

\* entry.data of each config entry: CONF_DEVICE_ID, CONF_UNIT_OF_MEASUREMENT.
\* The device id is whatever string the entry was created with: two meter
\* serials, and the string "scanner".
ConfigEntries ==
    << [device_id |-> <<"1", "1", "2", "0", "1">>, unit |-> "m3"],
       [device_id |-> <<"5", "1", "3">>, unit |-> "L"],
       [device_id |-> SCANNER_KEY, unit |-> "m3"] >>

Entries == 1..Len(ConfigEntries)

\* the entries whose device id is the serial of a meter
MeterEntries == {e \in Entries : ConfigEntries[e].device_id # SCANNER_KEY}

\* ElehantScanner objects alive at a time
MaxScanners == 2

MAC_11201 == <<"A", "A", ":", "B", "B", ":", "C", "C", ":", "0", "0", ":", "2", "B", ":", "C", "1">>
MAC_513 == <<"A", "A", ":", "B", "B", ":", "C", "C", ":", "0", "0", ":", "0", "2", ":", "0", "1">>
MAC_7 == <<"A", "A", ":", "B", "B", ":", "C", "C", ":", "0", "0", ":", "0", "0", ":", "0", "7">>

\* A manufacturer payload: bytes 1..5 are not read by the decoder.
Payload(marker, serial, counter, battery, temp) ==
    <<marker, 91, 5, 0, 15, 0>> \o serial \o counter \o <<battery>> \o temp

\* serial 11201 = 0x002BC1, counter raw 12345 = 0x00003039 (little-endian
\* on the wire), battery 87, temperature raw 215
PAYLOAD_11201_A == Payload(128, <<0, 43, 193>>, <<57, 48, 0, 0>>, 87, <<0, 215>>)
\* the same meter later, with a lower counter (raw 100) and raw temperature -5
PAYLOAD_11201_B == Payload(128, <<0, 43, 193>>, <<100, 0, 0, 0>>, 86, <<255, 251>>)
\* serial 513 = 0x000201, counter raw 70000 = 0x00011170
PAYLOAD_513 == Payload(128, <<0, 2, 1>>, <<112, 17, 1, 0>>, 100, <<0, 0>>)
\* a meter nobody configured: serial 7
PAYLOAD_7 == Payload(128, <<0, 0, 7>>, <<1, 0, 0, 0>>, 50, <<0, 10>>)
\* 15 bytes: one short of the layout
PAYLOAD_SHORT == SubSeq(PAYLOAD_11201_A, 1, 15)
\* the other layout's marker, 0x0E
PAYLOAD_OTHER_MARKER == Payload(14, <<0, 43, 193>>, <<57, 48, 0, 0>>, 87, <<0, 215>>)
\* serial 513 with battery byte 0xFF
PAYLOAD_513_BATTERY_255 == Payload(128, <<0, 2, 1>>, <<112, 17, 1, 0>>, 255, <<0, 0>>)

\* device.address and advertisement_data.manufacturer_data (a dict in
\* insertion order: manufacturer id, payload)
Adverts ==
    << [address |-> MAC_11201, manufacturer_data |-> << <<1371, PAYLOAD_11201_A>> >>],
       [address |-> MAC_11201, manufacturer_data |-> << <<1371, PAYLOAD_11201_B>> >>],
       [address |-> MAC_513, manufacturer_data |-> << <<1371, PAYLOAD_513>> >>],
       [address |-> MAC_11201, manufacturer_data |-> << <<1371, PAYLOAD_513>> >>],
       [address |-> MAC_7, manufacturer_data |-> << <<1371, PAYLOAD_7>> >>],
       [address |-> <<"A", "A", ":", "B", "B", ":", "0", "0", ":", "2", "B", ":", "C", "1">>,
        manufacturer_data |-> << <<1371, PAYLOAD_11201_A>> >>],
       [address |-> <<"A", "A", ":", "B", "B", ":", "C", "C", ":", "0", "0", ":", "2", "B", ":", "Z", "Z">>,
        manufacturer_data |-> << <<1371, PAYLOAD_11201_A>> >>],
       [address |-> MAC_11201, manufacturer_data |-> << >>],
       [address |-> MAC_11201, manufacturer_data |-> << <<76, <<>> >>, <<1371, PAYLOAD_OTHER_MARKER>> >>],
       [address |-> MAC_11201, manufacturer_data |-> << <<76, PAYLOAD_OTHER_MARKER>>, <<1371, PAYLOAD_11201_A>> >>],
       [address |-> MAC_11201, manufacturer_data |-> << <<76, PAYLOAD_SHORT>>, <<1371, PAYLOAD_11201_A>> >>],
       [address |-> MAC_513, manufacturer_data |-> << <<1371, PAYLOAD_513_BATTERY_255>> >>] >>

AdvertIds == 1..Len(Adverts)

\* the addresses and the payloads in range
Addresses == {Adverts[a].address : a \in AdvertIds}

Payloads ==
    UNION {{Adverts[a].manufacturer_data[i][2] :
                i \in 1..Len(Adverts[a].manufacturer_data)} : a \in AdvertIds}

\* extract_serial_from_mac and parse_elehant_data over the traffic in range,
\* evaluated once
SerialOfMac == [mac \in Addresses |-> extract_serial_from_mac(mac)]

ParsedData == [data \in Payloads |-> parse_elehant_data(data)]

----------------------------------------------------------------------------
\* An installation of sensor.py's polling scanner: its one config entry and
\* the service infos Home Assistant's bluetooth layer hands it.

\* entry.data: CONF_DEVICES (CONF_ID, CONF_TYPE, whether CONF_NAME_TEMP is
\* given), CONF_MEASUREMENT_WATER, CONF_MEASUREMENT_GAS
PollConfig ==
    [devices |-> << [id |-> 11201, type |-> DEVICE_TYPE_WATER, name_temp |-> TRUE],
                    [id |-> 513, type |-> DEVICE_TYPE_GAS, name_temp |-> FALSE] >>,
     measurement_water |-> MEASUREMENT_CUBIC_METERS,
     measurement_gas |-> MEASUREMENT_CUBIC_METERS]

\* n as 4 little-endian bytes
LE4(n) == <<n % 256, (n \div 256) % 256, (n \div 65536) % 256, n \div 16777216>>

\* a service info with manufacturer data only
MfgInfo(mfg_id, payload) ==
    [address |-> MAC_11201, name |-> <<>>, service_uuids |-> {},
     manufacturer_data |-> << <<mfg_id, payload>> >>, service_data |-> <<>>]

\* "0000180f-0000-1000-8000-00805f9b34fb"
OTHER_UUID ==
    <<"0", "0", "0", "0", "1", "8", "0", "f", "-", "0", "0", "0", "0", "-", "1", "0", "0", "0",
      "-", "8", "0", "0", "0", "-", "0", "0", "8", "0", "5", "f", "9", "b", "3", "4", "f", "b">>

ServiceInfos ==
    << \* id 11201, counter 12345, battery 87, temperature raw 215
       MfgInfo(65535, LE4(11201) \o LE4(12345) \o <<87, 0, 215, 0>>),
       \* 8 bytes: the counter only
       MfgInfo(65535, LE4(11201) \o LE4(100)),
       \* 9 bytes: counter and battery
       MfgInfo(65535, LE4(11201) \o LE4(99999) \o <<86>>),
       \* the gas meter, temperature raw -5
       MfgInfo(65535, LE4(513) \o LE4(70000) \o <<100, 0, 251, 255>>),
       \* a meter nobody configured
       MfgInfo(65535, LE4(7) \o LE4(1) \o <<50, 0, 10, 0>>),
       \* known by its name only: the address becomes the id
       [address |-> MAC_11201, name |-> <<"E", "l", "e", "h", "a", "n", "t">>,
        service_uuids |-> {}, manufacturer_data |-> <<>>, service_data |-> <<>>],
       \* another vendor's device
       [address |-> MAC_7, name |-> <<"M", "i">>, service_uuids |-> {OTHER_UUID},
        manufacturer_data |-> << <<76, LE4(11201) \o LE4(5)>> >>, service_data |-> <<>>],
       \* 4 bytes: an id and no counter
       MfgInfo(65535, LE4(11201)),
       \* service data only
       [address |-> MAC_513, name |-> <<>>, service_uuids |-> {ELEHANT_SERVICE_UUID},
        manufacturer_data |-> <<>>,
        service_data |-> << <<OTHER_UUID, LE4(11201) \o LE4(1)>>,
                            <<ELEHANT_SERVICE_UUID, LE4(513) \o LE4(5)>> >>],
       \* manufacturer data too short for an id, service data with all fields
       [address |-> MAC_11201, name |-> <<>>, service_uuids |-> {ELEHANT_SERVICE_UUID},
        manufacturer_data |-> << <<65535, <<1, 2, 3>> >> >>,
        service_data |-> << <<ELEHANT_SERVICE_UUID,
                              LE4(11201) \o LE4(777) \o <<90, 0, 10, 0>> >> >>],
       \* known by its name, whose upper case has two characters for the last
       \* one; the key of its service data holds the uuid behind an "x"
       [address |-> MAC_513, name |-> <<"e", "l", "e", "h", "a", "n", "ẗ">>,
        service_uuids |-> {}, manufacturer_data |-> <<>>,
        service_data |-> << << <<"x">> \o ELEHANT_SERVICE_UUID,
                               LE4(513) \o LE4(8) \o <<59, 0>> >> >>] >>

ServiceInfoIds == 1..Len(ServiceInfos)

----------------------------------------------------------------------------
\* State

VARIABLES
    hassData,    \* hass.data[DOMAIN]: key -> coordinator or ElehantScanner
    scanners,    \* the ElehantScanner objects, by the slot each lives in
    entryState,  \* where each config entry's setup / unload coroutine stands
    stopCalls,   \* the async_stop calls suspended at "await self._scan_task"
    event,       \* what the caller or the radio layer saw happen in this step
    devices,     \* sensor.py: the devices dict of its ElehantScanner
    fcall,       \* a call of one of scanner.py's module-level functions
    poller       \* sensor.py: its ElehantScanner, the interval timers, the scans

vars == <<hassData, scanners, entryState, stopCalls, event, devices, fcall, poller>>

\* the caller of ElehantScanner's methods that is not __init__.py
CLIENT == 0

Callers == Entries \cup {CLIENT}

\* a step that delivers no advertisement and completes no client call
Quiet == [op |-> "none", s |-> 0, adv |-> 0, outcome |-> "none"]

\* scanner s was handed advertisement adv

\* the client's call of async_start or async_stop on scanner s ended
Completed(op, s, outcome) == [op |-> op, s |-> s, adv |-> 0, outcome |-> outcome]

\* no call suspended
NoCall == [s |-> 0, ready |-> FALSE]

\* DataUpdateCoordinator(...) of __init__.py:35-42: no data yet
NewCoordinator(e) == [kind |-> "coordinator", entry |-> e, data |-> None]

\* ElehantScanner.__init__
NewScanner ==
    [exists |-> TRUE,        \* the slot holds an object
     scanner |-> FALSE,      \* self.scanner is not None
     bleak |-> "none",       \* the BleakScanner: none, created, started, stopped
     scan_task |-> FALSE,    \* self._scan_task is not None
     task |-> "none",        \* the newest _run_scanner task
     cancel |-> FALSE,       \* cancel() requested and not yet delivered
     failed |-> FALSE,       \* the newest task met a transport error
     after_stop |-> FALSE]   \* the last call to end on it was an async_stop

\* a slot that holds no object
NoScanner == [NewScanner EXCEPT !.exists = FALSE]

Slots == 1..MaxScanners

\* no module-level function is being called on its own
NoFunctionCall == [fn |-> "none"]

\* interval timers Home Assistant can hold at a time
MaxTimers == 2

\* scans counted by _scan_count
MaxScans == 2

\* sensor.py has created no ElehantScanner yet
NoPoller ==
    [exists |-> FALSE,       \* the object is there
     scanning |-> FALSE,     \* self._scanning
     cancel_interval |-> 0,  \* self._cancel_interval: the timer it cancels, 0 for None
     scan_count |-> 0,       \* self._scan_count
     cycles |-> 0,           \* the async_scan calls suspended inside their try block
     timers |-> {},          \* the interval timers armed with self.async_scan
     start_task |-> "none",  \* the task async_setup_entry creates for async_start
     after_stop |-> FALSE]   \* async_stop returned and async_start was not called since

\* sensor.py ElehantScanner.__init__
NewPoller == [NoPoller EXCEPT !.exists = TRUE]

\* the installation before any config entry is set up
Idle ==
    /\ hassData = EmptyDict
    /\ scanners = [s \in Slots |-> NoScanner]
    /\ entryState = [e \in Entries |-> "not_loaded"]
    /\ stopCalls = [c \in Callers |-> NoCall]
    /\ event = Quiet
    /\ devices = EmptyDict
    /\ poller = NoPoller

Init ==
    /\ Idle
    /\ fcall = NoFunctionCall

----------------------------------------------------------------------------
\* scanner.py: the advertisement pipeline of ElehantScanner

\* coordinator.async_set_updated_data(data), were it to keep the higher counter
SetUpdatedData_Monotonic(coordinators, key, data) ==
    LET old == coordinators[key].data
    IN  IF /\ old # None
           /\ \/ data.counter_liters.whole < old.counter_liters.whole
              \/ /\ data.counter_liters.whole = old.counter_liters.whole
                 /\ data.counter_liters.tenth < old.counter_liters.tenth
        THEN coordinators
        ELSE [coordinators EXCEPT ![key].data = data]

\* async_set_updated_data, were the coordinators to share one data object
SetUpdatedData_Shared(coordinators, key, data) ==
    [k \in DOMAIN coordinators |->
        IF coordinators[k].kind = "coordinator"
        THEN [coordinators[k] EXCEPT !.data = data] ELSE coordinators[k]]

\* coordinator.async_set_updated_data(data) on self.coordinators[key]
SetUpdatedData(coordinators, key, data) ==
    [coordinators EXCEPT ![key].data = data]

\* _process_packet without the test "mac_serial not in self.coordinators": a
\* reading is stored under whatever identity the address gives
ProcessPacket_AnyIdentity(coordinators, mac, data) ==
    LET mac_serial == SerialOfMac[mac]
        parsed == ParsedData[data]
        reading == [counter_liters |-> parsed.counter_liters,
                    battery |-> parsed.battery,
                    temperature |-> parsed.temperature,
                    unit |-> "m3"]
    IN  IF mac_serial = NoneStr \/ mac_serial = <<>> THEN coordinators
        ELSE IF parsed = None THEN coordinators
        ELSE IF parsed.serial # mac_serial THEN coordinators
        ELSE IF mac_serial \in DOMAIN coordinators
        THEN SetUpdatedData(coordinators, mac_serial,
                 [reading EXCEPT !.unit = ConfigEntries[coordinators[mac_serial].entry].unit])
        ELSE DictSet(coordinators, mac_serial,
                 [kind |-> "coordinator", entry |-> 1, data |-> reading])

\* _process_packet without the comparison of the two serials
ProcessPacket_NoCrossCheck(coordinators, mac, data) ==
    LET mac_serial == SerialOfMac[mac]
        parsed == ParsedData[data]
    IN  IF mac_serial = NoneStr \/ mac_serial = <<>> THEN coordinators
        ELSE IF mac_serial \notin DOMAIN coordinators THEN coordinators
        ELSE IF parsed = None THEN coordinators
        ELSE SetUpdatedData(coordinators, mac_serial,
                 [counter_liters |-> parsed.counter_liters,
                  battery |-> parsed.battery,
                  temperature |-> parsed.temperature,
                  unit |-> ConfigEntries[coordinators[mac_serial].entry].unit])

\* _process_packet, were it to reset the entry of the address when the payload
\* does not decode
ProcessPacket_ResetOnFailure(coordinators, mac, data) ==
    LET mac_serial == SerialOfMac[mac]
        parsed == ParsedData[data]
    IN  IF mac_serial = NoneStr \/ mac_serial = <<>> THEN coordinators
        ELSE IF mac_serial \notin DOMAIN coordinators THEN coordinators
        ELSE IF parsed = None THEN SetUpdatedData(coordinators, mac_serial, None)
        ELSE IF parsed.serial # mac_serial THEN coordinators
        ELSE SetUpdatedData(coordinators, mac_serial,
                 [counter_liters |-> parsed.counter_liters,
                  battery |-> parsed.battery,
                  temperature |-> parsed.temperature,
                  unit |-> ConfigEntries[coordinators[mac_serial].entry].unit])

\* _process_packet, were the scanner to serve the first config entry only
ProcessPacket_FirstEntryOnly(coordinators, mac, data) ==
    LET mac_serial == SerialOfMac[mac]
        parsed == ParsedData[data]
    IN  IF mac_serial = NoneStr \/ mac_serial = <<>> THEN coordinators
        ELSE IF mac_serial \notin DOMAIN coordinators THEN coordinators
        ELSE IF coordinators[mac_serial].entry # 1 THEN coordinators
        ELSE IF parsed = None THEN coordinators
        ELSE IF parsed.serial # mac_serial THEN coordinators
        ELSE SetUpdatedData(coordinators, mac_serial,
                 [counter_liters |-> parsed.counter_liters,
                  battery |-> parsed.battery,
                  temperature |-> parsed.temperature,
                  unit |-> ConfigEntries[coordinators[mac_serial].entry].unit])

\* _process_packet(mac, data): the coordinators afterwards
ProcessPacket(coordinators, mac, data) ==
    LET mac_serial == SerialOfMac[mac]
        parsed == ParsedData[data]
    IN  IF mac_serial = NoneStr \/ mac_serial = <<>> THEN coordinators
        ELSE IF mac_serial \notin DOMAIN coordinators THEN coordinators
        ELSE IF parsed = None THEN coordinators
        ELSE IF parsed.serial # mac_serial THEN coordinators
        ELSE SetUpdatedData(coordinators, mac_serial,
                 [counter_liters |-> parsed.counter_liters,
                  battery |-> parsed.battery,
                  temperature |-> parsed.temperature,
                  unit |-> ConfigEntries[coordinators[mac_serial].entry].unit])

\* the entries of manufacturer_data the loop of _detection_callback stops at
MarkerEntries(manufacturer_data) ==
    {i \in 1..Len(manufacturer_data) :
        /\ manufacturer_data[i][2] # <<>>
        /\ At(manufacturer_data[i][2], 0) = EXPECTED_FIRST_BYTE}

\* _detection_callback, were its loop to go on to the next entry with the
\* marker when one does not decode
DetectionCallback_AnyEntry(coordinators, adv) ==
    LET marked == MarkerEntries(adv.manufacturer_data)
        decoding == {i \in marked : ParsedData[adv.manufacturer_data[i][2]] # None}
    IN  IF adv.manufacturer_data = <<>> THEN coordinators
        ELSE IF marked = {} THEN coordinators
        ELSE ProcessPacket(coordinators, adv.address,
                 adv.manufacturer_data[Min(IF decoding = {} THEN marked ELSE decoding)][2])

\* _detection_callback(device, advertisement_data): the coordinators afterwards
DetectionCallback(coordinators, adv) ==
    IF adv.manufacturer_data = <<>> THEN coordinators
    ELSE IF MarkerEntries(adv.manufacturer_data) = {} THEN coordinators
    ELSE ProcessPacket(coordinators, adv.address,
             adv.manufacturer_data[Min(MarkerEntries(adv.manufacturer_data))][2])

----------------------------------------------------------------------------
\* scanner.py: the lifecycle of ElehantScanner

\* async_start(): returns at once when self.scanner is set; else a new
\* BleakScanner and a background task that has not run yet (eager_start=False)
AsyncStart(sc) ==
    IF sc.scanner
    THEN [sc EXCEPT !.after_stop = FALSE]
    ELSE [sc EXCEPT !.scanner = TRUE, !.bleak = "created", !.scan_task = TRUE,
                    !.task = "pending", !.cancel = FALSE, !.failed = FALSE,
                    !.after_stop = FALSE]

\* how async_start() ends for its caller: it returns None on both paths
\* (line 115, line 128) and raises on neither
StartOutcome(sc) == IF sc.scanner THEN "returned_ignored" ELSE "returned_started"

\* how async_stop() ends for its caller: it returns None; "again" when the
\* call before it on this scanner was an async_stop too
StopOutcome(sc) == IF sc.after_stop THEN "returned_again" ELSE "returned"

\* async_stop() runs to its end without suspending: no task, or a task that
\* is done (awaiting a finished task does not yield)
StopsAtOnce(sc) == ~sc.scan_task \/ sc.task = "done"

\* the last line of async_stop, and its return
StopReturned(sc) ==
    [sc EXCEPT !.scan_task = FALSE, !.after_stop = TRUE]

\* async_stop() up to "await self._scan_task": cancel() marks the task
StopCalled(sc) ==
    IF StopsAtOnce(sc) THEN StopReturned(sc) ELSE [sc EXCEPT !.cancel = TRUE]

\* the task of scanner s ended: every async_stop awaiting it may resume
Wake(s) ==
    [c \in Callers |-> IF stopCalls[c].s = s THEN [stopCalls[c] EXCEPT !.ready = TRUE]
                       ELSE stopCalls[c]]

\* _run_scanner's first step.  A task cancelled before it first runs never
\* enters the coroutine: neither the try nor the finally runs.
TaskFirstStep(s) ==
    /\ UNCHANGED <<devices, fcall, poller>>
    /\ scanners[s].task = "pending"
    /\ IF scanners[s].cancel
       THEN /\ scanners' = [scanners EXCEPT ![s].task = "done", ![s].cancel = FALSE]
            /\ stopCalls' = Wake(s)
       ELSE /\ scanners' = [scanners EXCEPT ![s].task = "starting"]
            /\ UNCHANGED stopCalls
    /\ event' = Quiet
    /\ UNCHANGED <<hassData, entryState>>

\* "await self.scanner.start()" returns: the radio subscription is active
RadioStartOk(s) ==
    /\ UNCHANGED <<devices, fcall, poller>>
    /\ scanners[s].task = "starting"
    /\ ~scanners[s].cancel
    /\ scanners' = [scanners EXCEPT ![s].task = "waiting", ![s].bleak = "started"]
    /\ event' = Quiet
    /\ UNCHANGED <<hassData, entryState, stopCalls>>

\* "await self.scanner.start()" raises: except Exception, then the finally
RadioStartFail(s) ==
    /\ UNCHANGED <<devices, fcall, poller>>
    /\ scanners[s].task = "starting"
    /\ ~scanners[s].cancel
    /\ scanners' = [scanners EXCEPT ![s].task = "stopping", ![s].failed = TRUE]
    /\ event' = Quiet
    /\ UNCHANGED <<hassData, entryState, stopCalls>>

\* CancelledError raised at an await inside the try: except, then the finally
TaskCancelled(s) ==
    /\ UNCHANGED <<devices, fcall, poller>>
    /\ scanners[s].task \in {"starting", "waiting"}
    /\ scanners[s].cancel
    /\ scanners' = [scanners EXCEPT ![s].task = "stopping", ![s].cancel = FALSE]
    /\ event' = Quiet
    /\ UNCHANGED <<hassData, entryState, stopCalls>>

\* CancelledError raised at "await self.scanner.stop()" in the finally: it
\* leaves the coroutine, self.scanner stays set, and the interrupted teardown
\* has or has not ended the subscription
TaskCancelledInFinally(s) ==
    /\ UNCHANGED <<devices, fcall, poller>>
    /\ scanners[s].task = "stopping"
    /\ scanners[s].cancel
    /\ \E torn \in BOOLEAN :
         scanners' = [scanners EXCEPT ![s].task = "done", ![s].cancel = FALSE,
                        ![s].bleak = IF torn /\ @ = "started" THEN "stopped" ELSE @]
    /\ stopCalls' = Wake(s)
    /\ event' = Quiet
    /\ UNCHANGED <<hassData, entryState>>

\* "await self.scanner.stop()" returns, then self.scanner = None
RadioStopDone(s) ==
    /\ UNCHANGED <<devices, fcall, poller>>
    /\ scanners[s].task = "stopping"
    /\ ~scanners[s].cancel
    /\ scanners' = [scanners EXCEPT ![s].task = "done", ![s].scanner = FALSE,
                      ![s].bleak = IF @ = "started" THEN "stopped" ELSE @]
    /\ stopCalls' = Wake(s)
    /\ event' = Quiet
    /\ UNCHANGED <<hassData, entryState>>

\* the radio layer calls _detection_callback while the subscription is active
Advertise(s, a) ==
    /\ UNCHANGED <<devices, fcall, poller>>
    /\ scanners[s].bleak = "started"
    /\ hassData' = DetectionCallback(hassData, Adverts[a])
    /\ event' = [op |-> "advert", s |-> s, adv |-> a, outcome |-> "none"]
    /\ UNCHANGED <<scanners, entryState, stopCalls>>

\* async_start() called on an existing scanner
ClientStart(s) ==
    /\ UNCHANGED <<devices, fcall, poller>>
    /\ stopCalls[CLIENT] = NoCall
    /\ scanners' = [scanners EXCEPT ![s] = AsyncStart(@)]
    /\ event' = Completed("async_start", s, StartOutcome(scanners[s]))
    /\ UNCHANGED <<hassData, entryState, stopCalls>>

\* async_stop() called on an existing scanner
ClientStop(s) ==
    /\ UNCHANGED <<devices, fcall, poller>>
    /\ stopCalls[CLIENT] = NoCall
    /\ scanners' = [scanners EXCEPT ![s] = StopCalled(@)]
    /\ stopCalls' = IF StopsAtOnce(scanners[s]) THEN stopCalls
                    ELSE [stopCalls EXCEPT ![CLIENT] = [s |-> s, ready |-> FALSE]]
    /\ event' = IF StopsAtOnce(scanners[s])
                THEN Completed("async_stop", s, StopOutcome(scanners[s]))
                ELSE Quiet
    /\ UNCHANGED <<hassData, entryState>>

\* a suspended async_stop resumes: self._scan_task = None, and it returns;
\* for async_unload_entry that is its own return too
StopResume(c) ==
    /\ UNCHANGED <<devices, fcall, poller>>
    /\ stopCalls[c].ready
    /\ scanners' = [scanners EXCEPT ![stopCalls[c].s] = StopReturned(@)]
    /\ stopCalls' = [stopCalls EXCEPT ![c] = NoCall]
    /\ entryState' = IF c \in Entries THEN [entryState EXCEPT ![c] = "not_loaded"]
                     ELSE entryState
    /\ event' = IF c = CLIENT
                THEN Completed("async_stop", stopCalls[c].s, StopOutcome(scanners[stopCalls[c].s]))
                ELSE Quiet
    /\ UNCHANGED hassData

----------------------------------------------------------------------------
\* __init__.py

FreeSlots == {s \in Slots : ~scanners[s].exists}

\* the ElehantScanner registered under hass.data[DOMAIN]["scanner"]: the one
\* other code can reach
Registered ==
    IF SCANNER_KEY \in DOMAIN hassData /\ hassData[SCANNER_KEY].kind = "scanner"
    THEN {hassData[SCANNER_KEY].id} ELSE {}

\* Python reclaims an ElehantScanner that nothing refers to or awaits any
\* more: not registered, its task over, its radio subscription not active.
Collect(s) ==
    /\ UNCHANGED <<devices, fcall, poller>>
    /\ scanners[s].exists
    /\ s \notin Registered
    /\ scanners[s].task \in {"none", "done"}
    /\ scanners[s].bleak # "started"
    /\ \A c \in Callers : stopCalls[c].s # s
    /\ event.s # s
    /\ scanners' = [scanners EXCEPT ![s] = NoScanner]
    /\ event' = Quiet
    /\ UNCHANGED <<hassData, entryState, stopCalls>>

\* async_setup_entry up to "await async_forward_entry_setups".  It reads
\* entry.data[CONF_DEVICE_ID], which the entries of a sensor.py installation
\* lack.
SetupBegin(e) ==
    /\ UNCHANGED <<devices, fcall, poller>>
    /\ DOMAIN devices = {}
    /\ entryState[e] = "not_loaded"
    /\ hassData' = DictSet(hassData, ConfigEntries[e].device_id, NewCoordinator(e))
    /\ entryState' = [entryState EXCEPT ![e] = "setup_forwarding"]
    /\ event' = Quiet
    /\ UNCHANGED <<scanners, stopCalls>>

\* async_setup_entry from line 59: the global scanner, if none is registered
SetupFinish(e) ==
    /\ UNCHANGED <<devices, fcall, poller>>
    /\ entryState[e] = "setup_forwarding"
    /\ IF SCANNER_KEY \notin DOMAIN hassData
       THEN /\ FreeSlots # {}
            /\ scanners' = [scanners EXCEPT ![Min(FreeSlots)] = AsyncStart(NewScanner)]
            /\ hassData' = DictSet(hassData, SCANNER_KEY,
                               [kind |-> "scanner", id |-> Min(FreeSlots)])
       ELSE UNCHANGED <<scanners, hassData>>
    /\ entryState' = [entryState EXCEPT ![e] = "loaded"]
    /\ event' = Quiet
    /\ UNCHANGED stopCalls

\* async_unload_entry up to "await async_unload_platforms"
UnloadBegin(e) ==
    /\ UNCHANGED <<devices, fcall, poller>>
    /\ entryState[e] = "loaded"
    /\ hassData' = DictPop(hassData, ConfigEntries[e].device_id)
    /\ entryState' = [entryState EXCEPT ![e] = "unload_platforms"]
    /\ event' = Quiet
    /\ UNCHANGED <<scanners, stopCalls>>

\* async_unload_entry from line 105, the platforms having unloaded or not
UnloadFinish(e, unload_ok) ==
    /\ UNCHANGED <<devices, fcall, poller>>
    /\ entryState[e] = "unload_platforms"
    /\ event' = Quiet
    /\ IF unload_ok /\ Cardinality(DOMAIN hassData) = 1 /\ SCANNER_KEY \in DOMAIN hassData
       THEN IF hassData[SCANNER_KEY].kind # "scanner"
            THEN \* what "scanner" holds has no async_stop: the call raises
                 /\ hassData' = DictPop(hassData, SCANNER_KEY)
                 /\ entryState' = [entryState EXCEPT ![e] = "failed_unload"]
                 /\ UNCHANGED <<scanners, stopCalls>>
            ELSE
            LET s == hassData[SCANNER_KEY].id
            IN  /\ hassData' = DictPop(hassData, SCANNER_KEY)
                /\ scanners' = [scanners EXCEPT ![s] = StopCalled(@)]
                /\ IF StopsAtOnce(scanners[s])
                   THEN /\ entryState' = [entryState EXCEPT ![e] = "not_loaded"]
                        /\ UNCHANGED stopCalls
                   ELSE /\ entryState' = [entryState EXCEPT ![e] = "unload_stopping"]
                        /\ stopCalls' = [stopCalls EXCEPT ![e] = [s |-> s, ready |-> FALSE]]
       ELSE /\ entryState' = [entryState EXCEPT ![e] =
                                IF unload_ok THEN "not_loaded" ELSE "failed_unload"]
            /\ UNCHANGED <<hassData, scanners, stopCalls>>

----------------------------------------------------------------------------
\* sensor.py: the polling installation

\* async_setup_entry of sensor.py: elehant_devices, handed to its ElehantScanner
ElehantDevices(config) ==
    LET ids == 1..Len(config.devices)
        Key(i) == Str(config.devices[i].id)
        Unit(i) == IF config.devices[i].type = DEVICE_TYPE_WATER
                   THEN config.measurement_water ELSE config.measurement_gas
    IN  [k \in {Key(i) : i \in ids}
               \cup {TempKey(Key(i)) : i \in {j \in ids : config.devices[j].name_temp}} |->
            IF \E i \in ids : k = Key(i)
            THEN \* elehant_devices[device_id] = sensor: the last device of an id
                 LET i == CHOOSE j \in ids :
                              k = Key(j) /\ \A m \in ids : k = Key(m) => m <= j
                 IN  CounterSensor(config.devices[i].type, Unit(i))
            ELSE TemperatureSensor]


\* async_setup_entry of sensor.py, where __init__.py's integration is not in
\* use: the entities, the scanner over them with the task that starts it,
\* and hass.data[DOMAIN][entry.entry_id] = {"scanner": scanner}
SensorSetupEntry ==
    /\ DOMAIN devices = {}
    /\ hassData = EmptyDict
    /\ \A e \in Entries : entryState[e] = "not_loaded"
    /\ \A s \in Slots : ~scanners[s].exists
    /\ devices' = ElehantDevices(PollConfig)
    /\ poller' = [NewPoller EXCEPT !.start_task = "pending"]
    /\ LET entry_id == <<"p", "o", "l", "l", "_", "e", "n", "t", "r", "y">>
       IN  hassData' = DictSet(hassData, entry_id,
                               [kind |-> "dict", keys |-> <<SCANNER_KEY>>])
    /\ event' = Quiet
    /\ UNCHANGED <<scanners, entryState, stopCalls, fcall>>

\* async_process_advertisements hands service info i to the callback of the
\* scan that is suspended in it, which hands it to _process_device_sync
ProcessDevice(i) ==
    /\ poller.cycles > 0
    /\ devices' = ProcessDeviceSync(devices, ServiceInfos[i])
    /\ event' = [op |-> "service_info", s |-> 0, adv |-> i, outcome |-> "none"]
    /\ UNCHANGED <<hassData, scanners, entryState, stopCalls, fcall, poller>>

\* what async_discovered_service_info can return: the service info last
\* seen from each address, of any of the addresses, in any order (by index)
DiscoveredLists ==
    LET addresses == {ServiceInfos[i].address : i \in ServiceInfoIds}
    IN  UNION {{l \in [1..n -> ServiceInfoIds] :
                   \A a, b \in 1..n :
                       a # b => ServiceInfos[l[a]].address # ServiceInfos[l[b]].address} :
               n \in 0..Cardinality(addresses)}

\* what _process_device_sync reads off each of the service infos
ServiceInfoReadings == [i \in ServiceInfoIds |-> ReadServiceInfo(ServiceInfos[i])]

\* the loop of async_scan over the discovered service infos: self.devices
\* after _process_device of each in turn
\* (a scan that raises does so in async_discovered_service_info, before the
\* loop, and a skipped scan never reaches it: both leave self.devices alone)
RECURSIVE ProcessDiscovered(_, _)
ProcessDiscovered(devs, discovered) ==
    IF discovered = <<>> THEN devs
    ELSE ProcessDiscovered(UpdateSensors(devs, ServiceInfoReadings[Head(discovered)]),
                           Tail(discovered))

\* async_scan, were it to scan whether or not a scan is in progress
PollAsyncScan_Unguarded(p, raises) ==
    IF raises
    THEN [p EXCEPT !.scanning = FALSE, !.scan_count = @ + 1]
    ELSE [p EXCEPT !.scanning = TRUE, !.scan_count = @ + 1, !.cycles = @ + 1]

\* sensor.py ElehantScanner.async_scan up to its first suspension, at
\* async_process_advertisements; when the try block raises before that, the
\* except and the finally clause run at once
PollAsyncScan(p, raises) ==
    IF p.scanning THEN p
    ELSE IF raises
    THEN [p EXCEPT !.scanning = FALSE, !.scan_count = @ + 1]
    ELSE [p EXCEPT !.scanning = TRUE, !.scan_count = @ + 1, !.cycles = @ + 1]

\* what the caller of async_scan sees of it
ScanOutcome(p, raises) ==
    IF p.scanning THEN "skipped" ELSE IF raises THEN "failed" ELSE "scanning"

\* sensor.py ElehantScanner.async_start, t the timer async_track_time_interval
\* arms, up to the first suspension of its scan
PollAsyncStart(p, t, raises) ==
    PollAsyncScan([p EXCEPT !.cancel_interval = t,
                            !.timers = @ \cup {t},
                            !.after_stop = FALSE], raises)

\* sensor.py ElehantScanner.async_stop
PollAsyncStop(p) ==
    IF p.cancel_interval # 0
    THEN [p EXCEPT !.timers = @ \ {p.cancel_interval},
                   !.cancel_interval = 0,
                   !.after_stop = TRUE]
    ELSE [p EXCEPT !.after_stop = TRUE]

\* the timers async_track_time_interval can still arm
FreeTimers == (1..MaxTimers) \ poller.timers

\* the task async_setup_entry created runs scanner.async_start()
StartTaskRuns(raises, discovered) ==
    /\ poller.start_task = "pending"
    /\ FreeTimers # {}
    /\ poller.scanning \/ poller.scan_count < MaxScans
    /\ poller' = [PollAsyncStart(poller, Min(FreeTimers), raises)
                     EXCEPT !.start_task = "done"]
    /\ event' = [op |-> "async_start", s |-> Min(FreeTimers), adv |-> 0,
                 outcome |-> ScanOutcome(poller, raises)]
    /\ devices' = IF poller.scanning \/ raises THEN devices
                  ELSE ProcessDiscovered(devices, discovered)
    /\ UNCHANGED <<hassData, scanners, entryState, stopCalls, fcall>>

\* other code calls async_start of the scanner kept in hass.data
PollClientStart(raises, discovered) ==
    /\ poller.exists
    /\ FreeTimers # {}
    /\ poller.scanning \/ poller.scan_count < MaxScans
    /\ poller' = PollAsyncStart(poller, Min(FreeTimers), raises)
    /\ event' = [op |-> "async_start", s |-> Min(FreeTimers), adv |-> 0,
                 outcome |-> ScanOutcome(poller, raises)]
    /\ devices' = IF poller.scanning \/ raises THEN devices
                  ELSE ProcessDiscovered(devices, discovered)
    /\ UNCHANGED <<hassData, scanners, entryState, stopCalls, fcall>>

\* other code awaits async_scan of the scanner kept in hass.data, whether or
\* not the scanner was started, is stopped or has a timer armed
PollClientScan(raises, discovered) ==
    /\ poller.exists
    /\ poller.scanning \/ poller.scan_count < MaxScans
    /\ poller' = PollAsyncScan(poller, raises)
    /\ event' = [op |-> "client_scan", s |-> 0, adv |-> 0,
                 outcome |-> ScanOutcome(poller, raises)]
    /\ devices' = IF poller.scanning \/ raises THEN devices
                  ELSE ProcessDiscovered(devices, discovered)
    /\ UNCHANGED <<hassData, scanners, entryState, stopCalls, fcall>>

\* other code calls async_stop of the scanner kept in hass.data
PollClientStop ==
    /\ poller.exists
    /\ poller' = PollAsyncStop(poller)
    /\ event' = [op |-> "async_stop", s |-> poller.cancel_interval, adv |-> 0,
                 outcome |-> IF poller.cancel_interval # 0 THEN "stopped" ELSE "nothing"]
    /\ UNCHANGED <<hassData, scanners, entryState, stopCalls, devices, fcall>>

\* interval timer t fires: Home Assistant calls self.async_scan(now)
TimerFires(t, raises, discovered) ==
    /\ t \in poller.timers
    /\ poller.scanning \/ poller.scan_count < MaxScans
    /\ poller' = PollAsyncScan(poller, raises)
    /\ event' = [op |-> "interval_scan", s |-> t, adv |-> 0,
                 outcome |-> ScanOutcome(poller, raises)]
    /\ devices' = IF poller.scanning \/ raises THEN devices
                  ELSE ProcessDiscovered(devices, discovered)
    /\ UNCHANGED <<hassData, scanners, entryState, stopCalls, fcall>>

\* async_process_advertisements of a suspended async_scan is over, by its
\* timeout or by an error _process_advertisements catches; the finally
\* clause of async_scan runs
ScanEnds(how) ==
    /\ poller.cycles > 0
    /\ poller' = [poller EXCEPT !.scanning = FALSE, !.cycles = @ - 1]
    /\ event' = [op |-> "scan_end", s |-> 0, adv |-> 0,
                 outcome |-> how]
    /\ UNCHANGED <<hassData, scanners, entryState, stopCalls, devices, fcall>>

\* The polling scanner under its timers, every caller of its methods and the
\* advertisements its scans are handed.
NextPolling ==
    \/ SensorSetupEntry
    \/ \E raises \in BOOLEAN : \E discovered \in IF poller.scanning \/ raises THEN {<<>>} ELSE DiscoveredLists :
           StartTaskRuns(raises, discovered)
    \/ \E raises \in BOOLEAN : \E discovered \in IF poller.scanning \/ raises THEN {<<>>} ELSE DiscoveredLists :
           PollClientStart(raises, discovered)
    \/ \E raises \in BOOLEAN : \E discovered \in IF poller.scanning \/ raises THEN {<<>>} ELSE DiscoveredLists :
           PollClientScan(raises, discovered)
    \/ PollClientStop
    \/ \E t \in 1..MaxTimers, raises \in BOOLEAN : \E discovered \in IF poller.scanning \/ raises THEN {<<>>} ELSE DiscoveredLists :
           TimerFires(t, raises, discovered)
    \/ \E i \in ServiceInfoIds : ProcessDevice(i)
    \/ \E how \in {"timeout", "error"} : ScanEnds(how)

SpecPolling == Init /\ [][NextPolling]_vars

----------------------------------------------------------------------------

ScannerIds == {s \in Slots : scanners[s].exists}

\* Home Assistant sets up and unloads the config entries of the meters
HomeAssistant ==
    \/ \E e \in MeterEntries : SetupBegin(e)
    \/ \E e \in MeterEntries : SetupFinish(e)
    \/ \E e \in MeterEntries : UnloadBegin(e)
    \/ \E e \in MeterEntries, unload_ok \in BOOLEAN : UnloadFinish(e, unload_ok)

\* the event loop runs the background tasks and the suspended calls; the
\* radio layer completes or fails what they await
EventLoop ==
    \/ \E c \in Callers : StopResume(c)
    \/ \E s \in ScannerIds : TaskFirstStep(s)
    \/ \E s \in ScannerIds : RadioStartOk(s)
    \/ \E s \in ScannerIds : RadioStartFail(s)
    \/ \E s \in ScannerIds : TaskCancelled(s)
    \/ \E s \in ScannerIds : TaskCancelledInFinally(s)
    \/ \E s \in ScannerIds : RadioStopDone(s)
    \/ \E s \in ScannerIds : Collect(s)

\* other code calls the public methods of the registered scanner
Client ==
    \/ \E s \in Registered : ClientStart(s)
    \/ \E s \in Registered : ClientStop(s)

\* An installation as Home Assistant drives it, with all the radio traffic.
Next ==
    \/ HomeAssistant
    \/ EventLoop
    \/ \E s \in ScannerIds, a \in AdvertIds : Advertise(s, a)
    \/ SensorSetupEntry
    \/ \E i \in ServiceInfoIds : ProcessDevice(i)
    \/ \E raises \in BOOLEAN : \E discovered \in IF poller.scanning \/ raises THEN {<<>>} ELSE DiscoveredLists :
           StartTaskRuns(raises, discovered)
    \/ \E t \in 1..MaxTimers, raises \in BOOLEAN : \E discovered \in IF poller.scanning \/ raises THEN {<<>>} ELSE DiscoveredLists :
           TimerFires(t, raises, discovered)
    \/ \E how \in {"timeout", "error"} : ScanEnds(how)

Spec == Init /\ [][Next]_vars

\* no call of async_setup_entry or async_unload_entry is under way
NoCallInProgress ==
    \A e \in Entries : entryState[e] \in {"not_loaded", "loaded", "failed_unload"}

\* Home Assistant sets up and unloads entries of any device id, one call
\* after the other, every platform unloading
HomeAssistantInTurn ==
    \/ \E e \in Entries : NoCallInProgress /\ SetupBegin(e)
    \/ \E e \in Entries : SetupFinish(e)
    \/ \E e \in Entries : NoCallInProgress /\ UnloadBegin(e)
    \/ \E e \in Entries : UnloadFinish(e, TRUE)

NextDeviceIds ==
    \/ HomeAssistantInTurn
    \/ EventLoop

SpecDeviceIds == Init /\ [][NextDeviceIds]_vars

\* The scanner's lifecycle under every caller, with the traffic of one
\* configured meter (advertisement 1).
NextLifecycle ==
    \/ HomeAssistant
    \/ EventLoop
    \/ Client
    \/ \E s \in ScannerIds, a \in {1} : Advertise(s, a)

SpecLifecycle == Init /\ [][NextLifecycle]_vars

\* what the event loop itself does once it can: it runs a task that is ready,
\* resumes a call whose awaited task ended and resumes a scan whose
\* async_process_advertisements is over, which its timeout makes it be
ProgramSteps ==
    \/ \E c \in Callers : StopResume(c)
    \/ \E s \in ScannerIds : TaskFirstStep(s)
    \/ \E s \in ScannerIds : TaskCancelled(s)
    \/ \E s \in ScannerIds : TaskCancelledInFinally(s)
    \/ \E raises \in BOOLEAN : \E discovered \in IF poller.scanning \/ raises THEN {<<>>} ELSE DiscoveredLists :
           StartTaskRuns(raises, discovered)
    \/ \E how \in {"timeout", "error"} : ScanEnds(how)

\* the radio layer answers what the tasks await of it
RadioAnswers ==
    \/ \E s \in ScannerIds : RadioStartOk(s)
    \/ \E s \in ScannerIds : RadioStartFail(s)
    \/ \E s \in ScannerIds : RadioStopDone(s)

\* An installation with a running event loop and a radio layer that answers
\* every request: no ready task and no scan that is over waits for ever.
SpecFair ==
    /\ Spec
    /\ WF_vars(ProgramSteps)
    /\ WF_vars(RadioAnswers)
    /\ WF_vars(\E how \in {"timeout", "error"} : ScanEnds(how))

\* The lifecycle with a running event loop and a radio layer that may leave
\* a request unanswered for ever.
SpecRadioHangs == SpecLifecycle /\ WF_vars(ProgramSteps)

----------------------------------------------------------------------------
\* scanner.py's module-level functions, called on their own

\* the longest manufacturer payload handed to the decoder
MaxPayloadLen == 18

\* payloads of every length: a first byte (the marker 0x80 among them), then
\* one repeated byte
FirstBytes == {0, 14, 128, 255}
FillBytes == {0, 128, 255}

Filled(n, first, fill) == [i \in 1..n |-> IF i = 1 THEN first ELSE fill]

SweepPayloads ==
    {Filled(n, first, fill) : n \in 0..MaxPayloadLen, first \in FirstBytes, fill \in FillBytes}

\* payloads of the full layout: the raw counter (little-endian on the wire)
\* at 0, 1, 9, 10, 12345, 2^31 - 1, 2^31 and 2^32 - 1, the battery byte in
\* and out of 0..100, the raw temperature at 0, 215, -5, -32768 and 32767
CounterSamples ==
    { <<0, 0, 0, 0>>, <<1, 0, 0, 0>>, <<9, 0, 0, 0>>, <<10, 0, 0, 0>>, <<57, 48, 0, 0>>,
      <<255, 255, 255, 127>>, <<0, 0, 0, 128>>, <<255, 255, 255, 255>> }
BatterySamples == {0, 100, 101, 255}
TempSamples == { <<0, 0>>, <<0, 215>>, <<255, 251>>, <<128, 0>>, <<127, 255>> }

FieldPayloads ==
    {Payload(EXPECTED_FIRST_BYTE, <<0, 43, 193>>, counter, battery, temp) :
        counter \in CounterSamples, battery \in BatterySamples, temp \in TempSamples}

PayloadInputs == SweepPayloads \cup FieldPayloads

\* the parts of an address: hex octets in either case, one digit, and what is
\* no octet (empty, not hex, three digits, prefixed, signed, padded, grouped)
OctetSamples ==
    { <<"0", "0">>, <<"2", "B">>, <<"C", "1">>, <<"c", "1">>, <<"F", "F">>, <<"7">>,
      <<>>, <<"Z", "Z">>, <<"1", "0", "0">>, <<"0", "x", "1", "F">>, <<"-", "1">>,
      <<" ", "1">>, <<"\f", "1">>, <<"1", "_", "0">>, <<" ", "7">>, <<"0", "۱">> }

\* what precedes the last three parts: three octets, three parts of which one
\* is no octet, two parts, four parts
AddressPrefixes ==
    { << <<"A", "A">>, <<"B", "B">>, <<"C", "C">> >>,
      << <<"Z", "Z">>, <<"B", "B">>, <<"C", "C">> >>,
      << <<"A", "A">>, <<"B", "B">> >>,
      << <<"A", "A">>, <<"B", "B">>, <<"C", "C">>, <<"D", "D">> >> }

\* sep.join(parts)
RECURSIVE Join(_, _)
Join(parts, sep) ==
    IF parts = <<>> THEN <<>>
    ELSE IF Len(parts) = 1 THEN parts[1]
    ELSE parts[1] \o <<sep>> \o Join(Tail(parts), sep)

AddressInputs ==
    {<<>>} \cup
    {Join(prefix \o <<p3, p4, p5>>, ":") :
        prefix \in AddressPrefixes, p3 \in OctetSamples, p4 \in OctetSamples, p5 \in OctetSamples}

\* the indexes of data that parse_elehant_data(data) reads: all of a short
\* payload for the hex of its log line, else byte 0, and behind the marker
\* the four fields
ParseReads(data) ==
    IF Len(data) < MIN_LENGTH THEN 0..(Len(data) - 1)
    ELSE IF At(data, 0) # EXPECTED_FIRST_BYTE THEN {0}
    ELSE {0} \cup (IDX_SERIAL_START..(IDX_SERIAL_START + 2))
             \cup (IDX_COUNTER_START..(IDX_COUNTER_START + 3))
             \cup {IDX_BATTERY}
             \cup (IDX_TEMP_START..(IDX_TEMP_START + 1))

\* the debug line parse_elehant_data(data) logs before it returns None
ParseLog(data) ==
    IF Len(data) < MIN_LENGTH THEN "Data too short"
    ELSE IF At(data, 0) # EXPECTED_FIRST_BYTE THEN "First byte mismatch"
    ELSE "none"

\* the octets a meter carries as its serial, and the triples of them
ByteSamples == {0, 1, 9, 10, 15, 16, 43, 127, 128, 193, 255}

SerialTriples == {<<b0, b1, b2>> : b0 \in ByteSamples, b1 \in ByteSamples, b2 \in ByteSamples}

\* an octet as the two hex digits of an address, in upper or lower case
HexOctet(b, digits) == <<digits[(b \div 16) + 1], digits[(b % 16) + 1]>>

\* the address and the payload of the meter whose serial octets are triple
MacOfTriple(triple, digits) ==
    Join(<< <<"A", "A">>, <<"B", "B">>, <<"C", "C">>,
            HexOctet(triple[1], digits), HexOctet(triple[2], digits),
            HexOctet(triple[3], digits) >>, ":")

PayloadOfTriple(triple) == Payload(EXPECTED_FIRST_BYTE, triple, <<1, 0, 0, 0>>, 50, <<0, 10>>)

MeterInputs ==
    {[mac |-> MacOfTriple(triple, digits), data |-> PayloadOfTriple(triple)] :
        triple \in SerialTriples, digits \in {HexChars, HexCharsLower}}

\* a call of fn(arg) that has not run yet
PendingCall(fn, arg) == [fn |-> fn, arg |-> arg, done |-> FALSE]

InitFunctions ==
    /\ Idle
    /\ fcall \in {PendingCall("extract_serial_from_mac", mac) : mac \in AddressInputs}
           \cup {PendingCall("parse_elehant_data", data) : data \in PayloadInputs}
           \cup {PendingCall("serials", meter) : meter \in MeterInputs}

\* extract_serial_from_mac(fcall.arg) runs and returns
CallExtractSerial ==
    /\ fcall.fn = "extract_serial_from_mac"
    /\ ~fcall.done
    /\ fcall' = [fn |-> fcall.fn, arg |-> fcall.arg, done |-> TRUE,
                 result |-> extract_serial_from_mac(fcall.arg)]
    /\ UNCHANGED <<hassData, scanners, entryState, stopCalls, event, devices, poller>>

\* parse_elehant_data(fcall.arg) runs and returns
CallParse ==
    /\ fcall.fn = "parse_elehant_data"
    /\ ~fcall.done
    /\ fcall' = [fn |-> fcall.fn, arg |-> fcall.arg, done |-> TRUE,
                 result |-> parse_elehant_data(fcall.arg),
                 reads |-> ParseReads(fcall.arg),
                 log |-> ParseLog(fcall.arg)]
    /\ UNCHANGED <<hassData, scanners, entryState, stopCalls, event, devices, poller>>

\* the two serials _process_packet compares for the advertisement of a meter
CallSerials ==
    /\ fcall.fn = "serials"
    /\ ~fcall.done
    /\ fcall' = [fn |-> fcall.fn, arg |-> fcall.arg, done |-> TRUE,
                 mac_serial |-> extract_serial_from_mac(fcall.arg.mac),
                 parsed |-> parse_elehant_data(fcall.arg.data)]
    /\ UNCHANGED <<hassData, scanners, entryState, stopCalls, event, devices, poller>>

NextFunctions ==
    \/ CallExtractSerial
    \/ CallParse
    \/ CallSerials

\* Each function on each input, once.
SpecFunctions == InitFunctions /\ [][NextFunctions]_vars

----------------------------------------------------------------------------
\* Terms of the properties

\* the meters configured: the device ids of the config entries that are set
\* up (setup begun, unload not completed)
ConfiguredIds ==
    {ConfigEntries[e].device_id :
        e \in {x \in Entries : entryState[x] \in
                  {"setup_forwarding", "loaded", "unload_platforms", "failed_unload"}}}

\* the meters configured in a sensor.py installation
PollConfiguredIds == {Str(PollConfig.devices[i].id) : i \in 1..Len(PollConfig.devices)}

\* the identities the reading store has an entry for
StoreIds == {k \in DOMAIN hassData : hassData[k].kind = "coordinator"}

\* an advertisement passes the filter: some manufacturer payload starts with
\* the marker
PassesFilter(adv) ==
    \E i \in 1..Len(adv.manufacturer_data) :
        /\ Len(adv.manufacturer_data[i][2]) > 0
        /\ adv.manufacturer_data[i][2][1] = 128

\* the payload of an advertisement that passes the filter: the first that
\* starts with the marker
FilteredPayload(adv) ==
    adv.manufacturer_data[
        CHOOSE i \in 1..Len(adv.manufacturer_data) :
            /\ Len(adv.manufacturer_data[i][2]) > 0
            /\ adv.manufacturer_data[i][2][1] = 128
            /\ \A j \in 1..(i - 1) : \/ Len(adv.manufacturer_data[j][2]) = 0
                                      \/ adv.manufacturer_data[j][2][1] # 128][2]

\* identity A of an advertisement: derived from its address
AddressIdentity(adv) == SerialOfMac[adv.address]

\* the reading a decoded payload amounts to, in the unit of the entry
ReadingOf(parsed, unit) ==
    [counter_liters |-> parsed.counter_liters, battery |-> parsed.battery,
     temperature |-> parsed.temperature, unit |-> unit]

\* an advertisement validated for identity k: it passes the filter, its
\* address gives k, its payload decodes and its serial is k
ValidatedFor(adv, k) ==
    /\ PassesFilter(adv)
    /\ AddressIdentity(adv) = k
    /\ ParsedData[FilteredPayload(adv)] # None
    /\ ParsedData[FilteredPayload(adv)].serial = k

\* the unit configured for a stored identity
UnitOf(k) == ConfigEntries[hassData[k].entry].unit

----------------------------------------------------------------------------
\* C1: unconfigured devices never accumulate state.  The reading store has
\* entries only for configured meters, and an advertisement whose derived
\* identity is not configured changes nothing in it; likewise the sensors of
\* a sensor.py installation.

C1_OnlyConfiguredStored ==
    /\ StoreIds \subseteq ConfiguredIds
    /\ DOMAIN devices \subseteq PollConfiguredIds \cup {TempKey(k) : k \in PollConfiguredIds}

C1_UnconfiguredIgnored ==
    /\ event'.op = "advert" /\ AddressIdentity(Adverts[event'.adv]) \notin ConfiguredIds
          => hassData' = hassData
    /\ event'.op = "service_info"
          /\ ExtractDeviceId(ServiceInfos[event'.adv]) \notin PollConfiguredIds
          => devices' = devices

C1_UnconfiguredNeverStored == []C1_OnlyConfiguredStored /\ [][C1_UnconfiguredIgnored]_vars

\* a well-formed advertisement of a meter that is not configured was
\* delivered while other meters are
C1_Witness ==
    /\ event.op = "advert"
    /\ StoreIds # {}
    /\ AddressIdentity(Adverts[event.adv]) \notin ConfiguredIds
    /\ ValidatedFor(Adverts[event.adv], AddressIdentity(Adverts[event.adv]))

\* C2: identity cross-check.  For a delivered advertisement that passes the
\* filter, whose address identity A has a store entry and whose payload
\* decodes with serial B: if A = B the entry of A becomes the decoded reading
\* and nothing else changes, and if A # B the store does not change at all.

C2_CrossCheckStep ==
    LET adv == Adverts[event'.adv]
        A == AddressIdentity(adv)
        parsed == ParsedData[FilteredPayload(adv)]
    IN  event'.op = "advert" /\ PassesFilter(adv) /\ A \in StoreIds /\ parsed # None
        => IF A = parsed.serial
           THEN hassData' = [hassData EXCEPT ![A].data = ReadingOf(parsed, UnitOf(A))]
           ELSE hassData' = hassData

C2_IdentityCrossCheck == [][C2_CrossCheckStep]_vars

\* an advertisement from the address of one configured meter with the payload
\* of another configured meter was delivered
C2_Witness ==
    /\ event.op = "advert"
    /\ PassesFilter(Adverts[event.adv])
    /\ AddressIdentity(Adverts[event.adv]) \in StoreIds
    /\ ParsedData[FilteredPayload(Adverts[event.adv])] # None
    /\ ParsedData[FilteredPayload(Adverts[event.adv])].serial \in
           StoreIds \ {AddressIdentity(Adverts[event.adv])}

----------------------------------------------------------------------------
\* C3: duplicate start rejected.  A call of async_start either starts the
\* scanner or, the scanner running already, ends with an AlreadyRunning error
\* for the caller: it never returns as if nothing had been asked.
C3_DuplicateStartRejected ==
    event.op = "async_start"
        => event.outcome \in {"returned_started", "raised_already_running"}

\* C4: idempotent stop.  When async_stop has returned for the second time in
\* succession, the scanner is idle: it has no scan task and no scanner object.
C4_StopTwiceIdle ==
    event.op = "async_stop" /\ event.outcome = "returned_again"
        => ~scanners[event.s].scan_task /\ ~scanners[event.s].scanner

\* C5: auto-restart on transport failure.  The registered scanner, once its
\* radio subscription has failed, eventually has an active subscription
\* again, unless the integration is unloaded meanwhile.
C5_RestartsAfterFailure ==
    \A s \in Slots :
        (s \in Registered /\ scanners[s].failed)
            ~> (scanners[s].bleak = "started" \/ s \notin Registered)

\* C6: single scan session.  At most one radio subscription is active at any
\* time.
C6_SingleSubscription ==
    Cardinality({s \in Slots : scanners[s].bleak = "started"}) <= 1

\* async_stop has been requested of scanner s and no async_start since: the
\* cancel is pending, or the task is past it
StopRequested(s) ==
    \/ scanners[s].cancel
    \/ scanners[s].scan_task /\ scanners[s].task \in {"stopping", "done"} /\ ~scanners[s].failed
    \/ scanners[s].after_stop

\* C7: cancellation is observed before the next event.  Once async_stop has
\* been requested of a scanner, an advertisement delivered to it is not
\* processed into the reading store.
C7_NoUpdateAfterStop ==
    [][event'.op = "advert" /\ StopRequested(event'.s) => hassData' = hassData]_vars

\* C8: bounded stop.  Every call of async_stop that suspends eventually
\* returns, whether or not the radio layer completes the teardown.
C8_StopReturns ==
    \A c \in Callers : (stopCalls[c].s # 0) ~> (stopCalls[c].s = 0)

\* the address prefix tables of the meter families, in the order they are
\* checked: scanner.py has none
FamilyPrefixTables ==
    << [family |-> "gas", prefixes |-> {}],
       [family |-> "water_with_temperature", prefixes |-> {}],
       [family |-> "water_dual", prefixes |-> {}] >>

\* the family of an address: that of the first table with its first three
\* octets, "None" when no table has them
ClassifyFamily(address) ==
    LET hits == {i \in 1..Len(FamilyPrefixTables) :
                    Slice(address, 0, 8) \in FamilyPrefixTables[i].prefixes}
    IN  IF hits = {} THEN "None" ELSE FamilyPrefixTables[Min(hits)].family

\* C9: end-to-end acceptance.  With the meter "11201" in the store, the
\* advertisement from the address ending 00:2B:C1 with a 16-byte payload
\* (marker 0x80, serial 11201, counter raw 12345, battery 87, temperature raw
\* 215) leaves the store holding 1234.5 for "11201", with battery 87 and
\* temperature 21.5, and the meter is of the family water with temperature.
\* The stored reading has no family field: the family is the one the address
\* classifies as.
C9_AcceptanceReading ==
    event.op = "advert" /\ event.adv = 1 /\ Str(11201) \in StoreIds
        => /\ hassData[Str(11201)].data =
                  [counter_liters |-> [neg |-> FALSE, whole |-> 1234, tenth |-> 5],
                   battery |-> 87,
                   temperature |-> [neg |-> FALSE, whole |-> 21, tenth |-> 5],
                   unit |-> "m3"]
           /\ ClassifyFamily(Adverts[event.adv].address) = "water_with_temperature"

\* C10: last-write-wins.  Every advertisement validated for a stored identity
\* makes that identity's reading the one it decodes to, whatever was stored
\* before, and no other step changes the reading of an identity that stays
\* in the store.
C10_OverwriteStep ==
    \A k \in StoreIds \cap StoreIds' :
        IF event'.op = "advert" /\ ValidatedFor(Adverts[event'.adv], k)
        THEN hassData'[k].data =
                 ReadingOf(ParsedData[FilteredPayload(Adverts[event'.adv])], UnitOf(k))
        ELSE hassData'[k].data = hassData[k].data

C10_LastWriteWins == [][C10_OverwriteStep]_vars

\* the advertisement with the lowest counter of meter "11201" was the last
\* one validated, and its reading is the stored one
C10_Witness ==
    /\ event.op = "advert" /\ event.adv = 2
    /\ Str(11201) \in StoreIds
    /\ hassData[Str(11201)].data # None
    /\ hassData[Str(11201)].data.counter_liters = [neg |-> FALSE, whole |-> 10, tenth |-> 0]

----------------------------------------------------------------------------
\* the stage at which the pipeline rejects an advertisement, "none" if it
\* passes the filter, the address resolver and the decoder
RejectedAt(adv) ==
    IF adv.manufacturer_data = <<>> THEN "no manufacturer data"
    ELSE IF ~PassesFilter(adv) THEN "no entry with the marker"
    ELSE IF AddressIdentity(adv) = NoneStr THEN "malformed address"
    ELSE IF Len(FilteredPayload(adv)) < 16 THEN "payload too short"
    ELSE IF ParsedData[FilteredPayload(adv)] = None THEN "payload not decoded"
    ELSE "none"

\* C11: dropped advertisements mutate nothing.  The delivery of an
\* advertisement that is rejected (no manufacturer data, no entry with the
\* marker, address without identity, payload that does not decode) leaves the
\* reading store, the scanners and the lifecycle of the entries and of the
\* pending stops as they were.
C11_DroppedStep ==
    event'.op = "advert" /\ RejectedAt(Adverts[event'.adv]) # "none"
        => /\ hassData' = hassData
           /\ scanners' = scanners
           /\ entryState' = entryState
           /\ stopCalls' = stopCalls

C11_DroppedMutateNothing == [][C11_DroppedStep]_vars

\* an advertisement from the address of a meter that has a stored reading was
\* rejected: its payload is too short
C11_Witness ==
    /\ event.op = "advert"
    /\ RejectedAt(Adverts[event.adv]) = "payload too short"
    /\ AddressIdentity(Adverts[event.adv]) \in StoreIds
    /\ hassData[AddressIdentity(Adverts[event.adv])].data # None

----------------------------------------------------------------------------
\* a call of parse_elehant_data that has returned
Parsed == fcall.fn = "parse_elehant_data" /\ fcall.done

\* C12: marker rejection.  parse_elehant_data of a payload whose byte 0 is not
\* 0x80 returns None, never a reading, and a payload long enough for the
\* layout is logged as a first byte mismatch.
C12_MarkerRejection ==
    Parsed /\ Len(fcall.arg) >= 1 /\ fcall.arg[1] # 128
        => /\ fcall.result = None
           /\ Len(fcall.arg) >= 16 => fcall.log = "First byte mismatch"

\* a payload of the full layout that starts with 0x0E was handed to the decoder
C12_Witness ==
    /\ Parsed
    /\ Len(fcall.arg) >= 16
    /\ fcall.arg[1] = 14

\* C13: length guard.  parse_elehant_data of a payload of 0 to 15 bytes returns
\* None as too short whatever the bytes are; no call reads an index at or
\* beyond the length of its payload, and a call that decodes reads nothing
\* beyond the 16 bytes required, the temperature at 14 and 15 included.
C13_LengthGuard ==
    Parsed
        => /\ Len(fcall.arg) < 16
                => fcall.result = None /\ fcall.log = "Data too short"
           /\ \A i \in fcall.reads : i < Len(fcall.arg)
           /\ fcall.result # None
                => {14, 15} \subseteq fcall.reads /\ \A i \in fcall.reads : i < 16

\* a payload of 15 bytes that starts with the marker was handed to the decoder
C13_Witness ==
    /\ Parsed
    /\ Len(fcall.arg) = 15
    /\ fcall.arg[1] = 128

\* C14: decoder totality.  parse_elehant_data returns None or a reading with
\* exactly the fields serial, counter_liters, battery and temperature, and
\* for a payload of at least 16 bytes that starts with the marker it returns
\* a reading.
C14_DecoderTotality ==
    Parsed
        => /\ \/ fcall.result = None
              \/ DOMAIN fcall.result = {"serial", "counter_liters", "battery", "temperature"}
           /\ Len(fcall.arg) >= 16 /\ fcall.arg[1] = 128 => fcall.result # None

\* a payload of exactly 16 bytes that starts with the marker was decoded
C14_Witness ==
    /\ Parsed
    /\ Len(fcall.arg) = 16
    /\ fcall.arg[1] = 128
    /\ fcall.result # None

\* the 16-bit halves of the raw counter r = 65536 * high + low in bytes 9..12
CounterLow(data) == data[10] + 256 * data[11]
CounterHigh(data) == data[12] + 256 * data[13]

\* C15: counter scaling.  The decoded counter is the unsigned little-endian
\* value r of bytes 9..12 divided by 10: its whole part r div 10, its tenth
\* r mod 10, never negative, for r = 0, 1 and 2^32 - 1 as for the rest.
C15_CounterScaling ==
    Parsed /\ fcall.result # None
        => LET carry == 6 * CounterHigh(fcall.arg) + CounterLow(fcall.arg)
           IN  fcall.result.counter_liters =
                   [neg |-> FALSE,
                    whole |-> 6553 * CounterHigh(fcall.arg) + (carry \div 10),
                    tenth |-> carry % 10]

\* the raw counter 2^32 - 1 was decoded
C15_Witness ==
    /\ Parsed
    /\ fcall.result # None
    /\ CounterLow(fcall.arg) = 65535
    /\ CounterHigh(fcall.arg) = 65535

----------------------------------------------------------------------------
\* a part of an address that is one octet: one or two hex digits
IsOctet(part) ==
    /\ Len(part) \in {1, 2}
    /\ \A i \in 1..Len(part) :
           \E j \in 1..16 : HexChars[j] = part[i] \/ HexCharsLower[j] = part[i]

\* the value of an octet
OctetValue(part) ==
    IF Len(part) = 1 THEN HexVal(part[1]) ELSE 16 * HexVal(part[1]) + HexVal(part[2])

\* an address of exactly 6 octets
WellFormedAddress(mac) ==
    /\ Len(Split(mac, ":")) = 6
    /\ \A i \in 1..6 : IsOctet(Split(mac, ":")[i])

\* C16: serial from address.  extract_serial_from_mac of an address of exactly
\* 6 octets returns the decimal string of its last three octets read as one
\* big-endian number, and of every other address it returns None.
C16_SerialFromAddress ==
    fcall.fn = "extract_serial_from_mac" /\ fcall.done
        => LET parts == Split(fcall.arg, ":")
           IN  fcall.result =
                   IF WellFormedAddress(fcall.arg)
                   THEN Str(65536 * OctetValue(parts[4]) + 256 * OctetValue(parts[5])
                            + OctetValue(parts[6]))
                   ELSE NoneStr

----------------------------------------------------------------------------
\* the entries of an advertisement that carry the marker and decode with the
\* serial k
ValidEntries(adv, k) ==
    {i \in 1..Len(adv.manufacturer_data) :
        /\ Len(adv.manufacturer_data[i][2]) > 0
        /\ adv.manufacturer_data[i][2][1] = 128
        /\ ParsedData[adv.manufacturer_data[i][2]] # None
        /\ ParsedData[adv.manufacturer_data[i][2]].serial = k}

\* C17 as stated: advertisement filter.  A delivered advertisement with no
\* manufacturer data, or with no non-empty entry that starts with the marker,
\* changes nothing; and one from the address of a stored identity in which
\* some entry with the marker is valid for it has that entry's reading
\* stored, whatever the entries before it.
C17_AnyValidEntryStep ==
    LET adv == Adverts[event'.adv]
        A == AddressIdentity(adv)
    IN  event'.op = "advert"
        => /\ ~PassesFilter(adv) => hassData' = hassData
           /\ A \in StoreIds /\ ValidEntries(adv, A) # {}
                => \E i \in ValidEntries(adv, A) :
                       hassData'[A].data =
                           ReadingOf(ParsedData[adv.manufacturer_data[i][2]], UnitOf(A))

C17_AnyValidEntryDecoded == [][C17_AnyValidEntryStep]_vars

\* C17: advertisement filter.  A delivered advertisement with no manufacturer
\* data, or with no non-empty entry that starts with the marker, changes
\* nothing; of one that passes, only the first entry with the marker is
\* decoded: valid for a stored identity it is stored, and otherwise nothing
\* changes, whatever the entries after it.
C17_FirstMarkerEntryStep ==
    LET adv == Adverts[event'.adv]
        A == AddressIdentity(adv)
    IN  event'.op = "advert"
        => IF PassesFilter(adv) /\ A \in StoreIds /\ ValidatedFor(adv, A)
           THEN hassData' = [hassData EXCEPT
                    ![A].data = ReadingOf(ParsedData[FilteredPayload(adv)], UnitOf(A))]
           ELSE hassData' = hassData

C17_FirstMarkerEntryDecoded == [][C17_FirstMarkerEntryStep]_vars

\* an advertisement was delivered from the address of a stored identity, its
\* first entry with the marker too short and a later one valid, and the
\* identity has no reading
C17_Witness ==
    /\ event.op = "advert"
    /\ PassesFilter(Adverts[event.adv])
    /\ ParsedData[FilteredPayload(Adverts[event.adv])] = None
    /\ AddressIdentity(Adverts[event.adv]) \in StoreIds
    /\ ValidEntries(Adverts[event.adv], AddressIdentity(Adverts[event.adv])) # {}
    /\ hassData[AddressIdentity(Adverts[event.adv])].data = None

----------------------------------------------------------------------------
\* C18: battery range.  Every reading in the store has a battery value in
\* 0..100, whatever battery byte the payload carried.
C18_BatteryRange ==
    \A k \in StoreIds :
        hassData[k].data # None => hassData[k].data.battery \in 0..100

----------------------------------------------------------------------------
\* C19: unknown family ignored.  The delivery of an advertisement whose
\* address is in no family prefix table stores nothing.
C19_UnknownFamilyStep ==
    event'.op = "advert" /\ ClassifyFamily(Adverts[event'.adv].address) = "None"
        => hassData' = hassData

C19_UnknownFamilyIgnored == [][C19_UnknownFamilyStep]_vars

----------------------------------------------------------------------------
\* the identities some advertisement in range is valid for
MeterIds ==
    {k \in {SerialOfMac[mac] : mac \in Addresses} :
        \E a \in AdvertIds : ValidatedFor(Adverts[a], k)}

\* the identities a scanner over these coordinators accepts: every valid
\* advertisement of theirs would be stored
AcceptedBy(coordinators) ==
    {k \in MeterIds :
        \A a \in AdvertIds :
            ValidatedFor(Adverts[a], k)
                => LET after == DetectionCallback(coordinators, Adverts[a])
                       parsed == ParsedData[FilteredPayload(Adverts[a])]
                   IN  /\ k \in DOMAIN after
                       /\ after[k].data # None
                       /\ after[k].data.counter_liters = parsed.counter_liters
                       /\ after[k].data.battery = parsed.battery
                       /\ after[k].data.temperature = parsed.temperature}

\* C20 as stated: configured meter set resolved once at session start.  While
\* a scanner stays started, the set of identities it accepts does not change.
C20_ResolvedOnceStep ==
    (\E s \in Slots : scanners[s].bleak = "started" /\ scanners'[s].bleak = "started")
        => AcceptedBy(hassData') = AcceptedBy(hassData)

C20_ResolvedOnce == [][C20_ResolvedOnceStep]_vars

\* C20: configured meter set.  The identities a started scanner accepts are at
\* every moment those with a coordinator in hass.data[DOMAIN] at that moment:
\* an entry set up later is accepted from its setup on, an entry being
\* unloaded no longer.
C20_AcceptsCurrentSet ==
    (\E s \in Slots : scanners[s].bleak = "started")
        => AcceptedBy(hassData) = StoreIds

\* a scanner is started while the setup of the entry of 513 is under way, and
\* it accepts 11201 and 513
C20_Witness ==
    /\ \E s \in Slots : scanners[s].bleak = "started"
    /\ \E e \in Entries : /\ ConfigEntries[e].device_id = <<"5", "1", "3">>
                          /\ entryState[e] = "setup_forwarding"
    /\ AcceptedBy(hassData) = {ConfigEntries[e].device_id : e \in MeterEntries}

----------------------------------------------------------------------------
\* C21: restart after stop.  An async_start on a scanner whose last call was
\* an async_stop that has returned creates a new BleakScanner and a new
\* background task, also when that stop came before the first step of the
\* task of the start before it.
C21_RestartStep ==
    \A s \in Slots :
        scanners[s].after_stop /\ event'.op = "async_start" /\ event'.s = s
            => /\ event'.outcome = "returned_started"
               /\ scanners'[s].bleak = "created"
               /\ scanners'[s].task = "pending"

C21_RestartAfterStop == [][C21_RestartStep]_vars

----------------------------------------------------------------------------
\* C22: address and payload serial agree.  For a meter whose address ends in
\* the octets b0:b1:b2 and whose payload carries b0, b1, b2 in bytes 6..8,
\* the serial from the address and the serial from the payload are the same
\* string, the decimal of 65536 * b0 + 256 * b1 + b2.
C22_SerialsAgree ==
    fcall.fn = "serials" /\ fcall.done
        => /\ fcall.parsed # None
           /\ fcall.mac_serial = fcall.parsed.serial
           /\ fcall.mac_serial =
                  Str(65536 * fcall.arg.data[7] + 256 * fcall.arg.data[8] + fcall.arg.data[9])

\* the two serials of a meter whose three octets all differ were computed
C22_Witness ==
    /\ fcall.fn = "serials"
    /\ fcall.done
    /\ fcall.arg.data[7] = 1
    /\ fcall.arg.data[8] = 43
    /\ fcall.arg.data[9] = 193

----------------------------------------------------------------------------
\* the unsigned big-endian value of bytes 14..15
TempRaw(data) == 256 * data[15] + data[16]

\* C23: temperature decoding.  The decoded temperature is the two's-complement
\* big-endian value of bytes 14..15 in tenths: negative exactly for raw values
\* 0x8000..0xFFFF, of magnitude 65536 - raw then and raw otherwise, and so
\* within -3276.8..3276.7.
C23_TemperatureDecoding ==
    Parsed /\ fcall.result # None
        => LET raw == TempRaw(fcall.arg)
               t == fcall.result.temperature
               tenths == 10 * t.whole + t.tenth
           IN  /\ t.neg <=> raw >= 32768
               /\ tenths = IF raw >= 32768 THEN 65536 - raw ELSE raw
               /\ t.tenth \in 0..9
               /\ tenths <= IF t.neg THEN 32768 ELSE 32767

\* the raw temperature 0x8000 was decoded
C23_Witness ==
    /\ Parsed
    /\ fcall.result # None
    /\ TempRaw(fcall.arg) = 32768

----------------------------------------------------------------------------
\* C24: store entries persist.  While the scan session goes on (the scanner
\* stays registered), no step takes an identity that has a reading out of the
\* store or leaves it without a reading.
C24_PersistStep ==
    Registered # {} /\ Registered' = Registered
        => \A k \in StoreIds :
               hassData[k].data # None
C24_EntriesPersist == [][C24_PersistStep]_vars

----------------------------------------------------------------------------
\* C25: per-device isolation.  The delivery of an advertisement validated for
\* identity X leaves every other key of hass.data[DOMAIN] with its value, the
\* set of keys, the coordinator of X apart from its data, the scanners and
\* the state of the entries as they were.
C25_IsolationStep ==
    LET adv == Adverts[event'.adv]
        X == AddressIdentity(adv)
    IN  event'.op = "advert" /\ ValidatedFor(adv, X) /\ X \in StoreIds
        => /\ DOMAIN hassData' = DOMAIN hassData
           /\ \A k \in DOMAIN hassData \ {X} : hassData'[k] = hassData[k]
           /\ hassData'[X].kind = hassData[X].kind
           /\ hassData'[X].entry = hassData[X].entry
           /\ scanners' = scanners
           /\ entryState' = entryState
           /\ stopCalls' = stopCalls

C25_PerDeviceIsolation == [][C25_IsolationStep]_vars

\* an advertisement validated for one stored identity was delivered and
\* stored while another identity holds a different reading
C25_Witness ==
    /\ event.op = "advert"
    /\ ValidatedFor(Adverts[event.adv], AddressIdentity(Adverts[event.adv]))
    /\ AddressIdentity(Adverts[event.adv]) \in StoreIds
    /\ hassData[AddressIdentity(Adverts[event.adv])].data # None
    /\ \E k \in StoreIds \ {AddressIdentity(Adverts[event.adv])} :
           /\ hassData[k].data # None
           /\ hassData[k].data # hassData[AddressIdentity(Adverts[event.adv])].data


----------------------------------------------------------------------------
\* C26: after any sequence of completed async_setup_entry calls and successful
\* async_unload_entry calls, for any device id strings, the global scanner is
\* registered exactly when at least one device coordinator is registered.
C26_ScannerFollowsDevices ==
    (\A e \in Entries : entryState[e] \in {"not_loaded", "loaded"})
        => (Registered # {} <=> StoreIds # {})


----------------------------------------------------------------------------
\* C27: when the platform unload of async_unload_entry fails, the device's
\* coordinator is still registered in the configured set, so the device that
\* is still loaded keeps receiving readings.
C27_FailedUnloadKeepsDevice ==
    \A e \in MeterEntries :
        entryState[e] = "failed_unload"
            => /\ ConfigEntries[e].device_id \in StoreIds
               /\ hassData[ConfigEntries[e].device_id].entry = e


----------------------------------------------------------------------------
\* C28: in the polling scanner at most one scan cycle is in progress at any
\* time and _scanning is set exactly while one is, so it is clear again when a
\* cycle ends or fails; an async_scan invoked while a cycle is in progress
\* returns without scanning.
C28_ScanStep ==
    LET ScanCalls == {"async_start", "interval_scan", "client_scan"} IN
    /\ poller'.cycles <= 1
    /\ poller'.scanning <=> poller'.cycles = 1
    /\ poller.scanning /\ event'.op \in ScanCalls
           => /\ event'.outcome = "skipped"
              /\ poller'.scan_count = poller.scan_count
              /\ poller'.cycles = poller.cycles
    /\ ~poller.scanning /\ event'.op \in ScanCalls
           => /\ event'.outcome \in {"scanning", "failed"}
              /\ poller'.scan_count = poller.scan_count + 1

C28_ScanMutualExclusion == [][C28_ScanStep]_vars

\* a timer fired into a cycle in progress, after an earlier cycle had failed
\* or ended
C28_Witness ==
    /\ event.op = "interval_scan"
    /\ event.outcome = "skipped"
    /\ poller.cycles = 1
    /\ poller.scan_count >= 2

----------------------------------------------------------------------------
\* C29: after async_stop of the polling scanner returned, and until the next
\* async_start, no interval timer starts a scan cycle, whatever calls of
\* async_start and async_stop came before.
C29_AfterStopStep ==
    poller.after_stop
        => ~(event'.op = "interval_scan" /\ event'.outcome \in {"scanning", "failed"})

C29_NoScanAfterStop == [][C29_AfterStopStep]_vars

============================================================================
